---- MODULE Spec2Model ----
(***************************************************************************)
(* Geocoding resolution pipeline of property-monitor:                      *)
(* PolishGeocodingWorker / GeocodingService (geocoding_service.py) over    *)
(* the properties, geocoding_cache, failed_geocoding and system_config     *)
(* tables of DatabaseManager (database.py).                                *)
(*                                                                         *)
(* Strings are sequences of characters; a character is a one-letter        *)
(* string, a Polish letter is written with a mark after its base letter    *)
(* ("l/" is l-stroke, "o'" is o-acute, "a~" is a-ogonek, "z." is z-dot).   *)
(* Coordinates are in tenths of a degree (52.2 is 522).                    *)
(***************************************************************************)
EXTENDS Integers, Sequences, FiniteSets, Bags, TLC

(* SQL NULL / Python None in a numeric column: no coordinate has this value *)
NULL == 9999

(* SQL NULL in a text column *)
NullText == "NULL"

(* Python None as a city (properties.city is nullable) *)
NoneCity == <<"None">>

----------------------------------------------------------------------------
(* Python str primitives used by the normalizer and the data manager *)

UpperChars ==
    << "A", "B", "C", "D", "E", "F", "G", "H", "I", "J", "K", "L", "M", "N",
       "O", "P", "Q", "R", "S", "T", "U", "V", "W", "X", "Y", "Z", "A~",
       "C'", "E~", "L/", "N'", "O'", "S'", "Z'", "Z." >>

LowerChars ==
    << "a", "b", "c", "d", "e", "f", "g", "h", "i", "j", "k", "l", "m", "n",
       "o", "p", "q", "r", "s", "t", "u", "v", "w", "x", "y", "z", "a~",
       "c'", "e~", "l/", "n'", "o'", "s'", "z'", "z." >>

(* str.lower() on one character *)
LowerChar(c) ==
    LET hits == {i \in 1..Len(UpperChars) : UpperChars[i] = c}
    IN  IF hits = {} THEN c ELSE LowerChars[CHOOSE i \in hits : TRUE]

Lower(s) == [i \in 1..Len(s) |-> LowerChar(s[i])]

IsSpace(c) == c = " "

RECURSIVE LStrip(_)
LStrip(s) == IF s # <<>> /\ IsSpace(Head(s)) THEN LStrip(Tail(s)) ELSE s

RECURSIVE RStrip(_)
RStrip(s) ==
    IF s # <<>> /\ IsSpace(s[Len(s)]) THEN RStrip(SubSeq(s, 1, Len(s) - 1)) ELSE s

Strip(s) == RStrip(LStrip(s))

StartsWith(s, p) == Len(s) >= Len(p) /\ SubSeq(s, 1, Len(p)) = p

DropFirst(s, n) == SubSeq(s, n + 1, Len(s))

----------------------------------------------------------------------------
(* GeocodingDataManager: default data files *)

city_corrections ==
    << <<<<"w", "a", "r", "s", "z", "e", "w", "a">>, <<"w", "a", "r", "s", "z", "a", "w", "a">>>>,
       <<<<"w", "a", "r", "s", "a", "w", "a">>, <<"w", "a", "r", "s", "z", "a", "w", "a">>>>,
       <<<<"w", "a", "r", "s", "h", "a", "w", "a">>, <<"w", "a", "r", "s", "z", "a", "w", "a">>>>,
       <<<<"k", "r", "a", "k", "u", "w">>, <<"k", "r", "a", "k", "o", "w">>>>,
       <<<<"k", "r", "a", "k", "o", "f">>, <<"k", "r", "a", "k", "o", "w">>>>,
       <<<<"w", "r", "o", "c", "l", "w">>, <<"w", "r", "o", "c", "l", "a", "w">>>>,
       <<<<"w", "r", "o", "c", "a", "l", "w">>, <<"w", "r", "o", "c", "l", "a", "w">>>>,
       <<<<"w", "r", "o", "c", "a", "w">>, <<"w", "r", "o", "c", "l", "a", "w">>>>,
       <<<<"g", "d", "a", "n", "k", "s">>, <<"g", "d", "a", "n", "s", "k">>>>,
       <<<<"p", "o", "z", "n", "a", "n">>, <<"p", "o", "z", "n", "a", "n">>>>,
       <<<<"p", "o", "z", "n", "a", "n'">>, <<"p", "o", "z", "n", "a", "n">>>>,
       <<<<"l", "o", "d", "z">>, <<"l", "o", "d", "z">>>>,
       <<<<"l/", "o'", "d", "z">>, <<"l", "o", "d", "z">>>>,
       <<<<"s", "z", "c", "z", "e", "c", "i", "n">>, <<"s", "z", "c", "z", "e", "c", "i", "n">>>>,
       <<<<"s", "z", "c", "z", "e", "s", "z">>, <<"s", "z", "c", "z", "e", "c", "i", "n">>>>,
       <<<<"b", "y", "d", "g", "o", "s", "c", "z">>, <<"b", "y", "d", "g", "o", "s", "z", "c", "z">>>>,
       <<<<"b", "y", "d", "g", "o", "s", "z", "c", "z">>, <<"b", "y", "d", "g", "o", "s", "z", "c", "z">>>>,
       <<<<"l", "u", "b", "l", "i", "n">>, <<"l", "u", "b", "l", "i", "n">>>>,
       <<<<"l", "u", "b", "l", "l", "i", "n">>, <<"l", "u", "b", "l", "i", "n">>>>,
       <<<<"k", "a", "t", "o", "v", "i", "c", "e">>, <<"k", "a", "t", "o", "w", "i", "c", "e">>>>,
       <<<<"k", "a", "t", "o", "w", "i", "c", "e">>, <<"k", "a", "t", "o", "w", "i", "c", "e">>>>,
       <<<<"r", "z", "e", "s", "z", "o", "w">>, <<"r", "z", "e", "s", "z", "o", "w">>>>,
       <<<<"r", "z", "e", "s", "z", "o'", "w">>, <<"r", "z", "e", "s", "z", "o", "w">>>> >>

diacritic_map ==
    [c \in {"a~", "c'", "e~", "l/", "n'", "o'", "s'", "z'", "z.",
            "A~", "C'", "E~", "L/", "N'", "O'", "S'", "Z'", "Z."} |->
        CASE c = "a~" -> "a" [] c = "c'" -> "c" [] c = "e~" -> "e"
          [] c = "l/" -> "l" [] c = "n'" -> "n" [] c = "o'" -> "o"
          [] c = "s'" -> "s" [] c = "z'" -> "z" [] c = "z." -> "z"
          [] c = "A~" -> "A" [] c = "C'" -> "C" [] c = "E~" -> "E"
          [] c = "L/" -> "L" [] c = "N'" -> "N" [] c = "O'" -> "O"
          [] c = "S'" -> "S" [] c = "Z'" -> "Z" [] c = "Z." -> "Z"]

common_prefixes ==
    << <<"g", "m", "i", "n", "a">>,
       <<"g", "m", ".">>,
       <<"m", "i", "a", "s", "t", "o">>,
       <<"m", ".">>,
       <<"p", "o", "w", "i", "a", "t">>,
       <<"p", "o", "w", ".">>,
       <<"w", "o", "j", "e", "w", "o'", "d", "z", "t", "w", "o">>,
       <<"w", "o", "j", ".">> >>

(* mutant: the table is looked up with the city as written *)
get_corrected_city_case_sensitive(city) ==
    LET hits == {i \in 1..Len(city_corrections) : city_corrections[i][1] = Strip(city)}
    IN  IF hits = {} THEN city ELSE city_corrections[CHOOSE i \in hits : TRUE][2]

(* city_corrections.get(city.lower().strip(), city) *)
get_corrected_city(city) ==
    LET city_lower == Strip(Lower(city))
        hits == {i \in 1..Len(city_corrections) : city_corrections[i][1] = city_lower}
    IN  IF hits = {} THEN city ELSE city_corrections[CHOOSE i \in hits : TRUE][2]

remove_diacritics(text) ==
    [i \in 1..Len(text) |->
        IF text[i] \in DOMAIN diacritic_map THEN diacritic_map[text[i]] ELSE text[i]]

(* the first prefix of the list that the lower-cased city starts with *)
clean_city_name(city) ==
    LET c == Strip(city)
        city_lower == Lower(c)
        hits == {i \in 1..Len(common_prefixes) :
                    StartsWith(city_lower, common_prefixes[i] \o <<" ">>)}
    IN  IF hits = {} THEN c
        ELSE LET first == CHOOSE i \in hits : \A j \in hits : i <= j
             IN  Strip(DropFirst(c, Len(common_prefixes[first])))

(* SimpleFuzzyMatcher.generate_variants: a Python set, so the order of the *)
(* returned list is not determined; this is the set of its elements        *)
generate_variants(city) ==
    LET variants == {city, clean_city_name(city), remove_diacritics(city),
                     get_corrected_city(city),
                     clean_city_name(get_corrected_city(city))}
    IN  {v \in variants : v # <<>> /\ Len(v) > 1}

----------------------------------------------------------------------------
(* DatabaseManager._normalize_city *)

prefixes ==
    << <<"g", "m", "i", "n", "a", " ">>,
       <<"g", "m", ".", " ">>,
       <<"m", "i", "a", "s", "t", "o", " ">>,
       <<"m", ".", " ">>,
       <<"p", "o", "w", "i", "a", "t", " ">>,
       <<"p", "o", "w", ".", " ">> >>

(* unicodedata.normalize('NFKD') then encode('ascii', 'ignore'): a letter  *)
(* with a combining mark keeps its base letter, l-stroke has no            *)
(* decomposition and is dropped; "C|" is U+2102, the double-struck capital *)
(* C, which str.lower() leaves as it is and NFKD decomposes to "C"         *)
AsciiFold(c) ==
    CASE c \in {"a~", "c'", "e~", "n'", "o'", "s'", "z'", "z."} -> <<diacritic_map[c]>>
      [] c \in {"A~", "C'", "E~", "N'", "O'", "S'", "Z'", "Z."} -> <<diacritic_map[c]>>
      [] c \in {"l/", "L/"} -> <<>>
      [] c = "C|" -> <<"C">>
      [] OTHER -> <<c>>

RECURSIVE FlatMap(_, _)
FlatMap(Op(_), s) == IF s = <<>> THEN <<>> ELSE Op(Head(s)) \o FlatMap(Op, Tail(s))

(* re.sub(r'[^\w\s\-]', '', city) on ASCII text *)
KeepWordChar(c) == IF c \in {".", ",", "'", "/"} THEN <<>> ELSE <<c>>

(* re.sub(r'\s+', ' ', city) *)
RECURSIVE CollapseSpaces(_)
CollapseSpaces(s) ==
    IF Len(s) < 2 THEN s
    ELSE IF IsSpace(s[1]) /\ IsSpace(s[2]) THEN CollapseSpaces(Tail(s))
         ELSE <<Head(s)>> \o CollapseSpaces(Tail(s))

_normalize_city(city) ==
    IF city = NoneCity \/ city = <<>> THEN <<>>
    ELSE LET c1 == Lower(Strip(city))
             hits == {i \in 1..Len(prefixes) : StartsWith(c1, prefixes[i])}
             c2 == IF hits = {} THEN c1
                   ELSE LET first == CHOOSE i \in hits : \A j \in hits : i <= j
                        IN  Strip(DropFirst(c1, Len(prefixes[first])))
             c3 == FlatMap(AsciiFold, c2)
             c4 == FlatMap(KeepWordChar, c3)
             c5 == CollapseSpaces(c4)
         IN  [i \in 1..Len(c5) |-> IF c5[i] = " " THEN "_" ELSE c5[i]]

----------------------------------------------------------------------------
(* PolishGeocodingWorker.poland_bounds and _is_in_poland, in tenths *)

poland_bounds == [min_lat |-> 490, max_lat |-> 549, min_lng |-> 141, max_lng |-> 242]

(* mutant: the bounds themselves are outside *)
_is_in_poland_exclusive(lat, lng) ==
    /\ poland_bounds.min_lat < lat /\ lat < poland_bounds.max_lat
    /\ poland_bounds.min_lng < lng /\ lng < poland_bounds.max_lng

(* mutant: the upper latitude bound is not checked *)
_is_in_poland_no_max_lat(lat, lng) ==
    /\ poland_bounds.min_lat <= lat
    /\ poland_bounds.min_lng <= lng /\ lng <= poland_bounds.max_lng

_is_in_poland(lat, lng) ==
    /\ poland_bounds.min_lat <= lat /\ lat <= poland_bounds.max_lat
    /\ poland_bounds.min_lng <= lng /\ lng <= poland_bounds.max_lng

----------------------------------------------------------------------------
(* Bounds of the model *)

MaxRuns == 2
MaxConfigUpdates == 1
MaxFixes == 1

(* the listings in the properties table, numbered in first_seen order *)
Targets == {1, 2}

(* the ids an operator may pass to a manual fix: one of them matches no row *)
ManualIds == Targets \cup {Cardinality(Targets) + 1}

(* the scheduler thread (_geocoding_job) and an on-demand thread           *)
(* (api_geocoding_trigger / api_geocoding_retry / CLI)                     *)
Workers == {"scheduler", "ondemand"}

Opole == <<"O", "p", "o", "l", "e">>

(* a misspelling the correction table knows, and a name with a prefix and  *)
(* a Polish letter                                                         *)
Warszewa == <<"W", "a", "r", "s", "z", "e", "w", "a">>

GmElk == <<"g", "m", ".", " ", "E", "l/", "k">>

Cities == {Opole, NoneCity, Warszewa, GmElk}

(* _normalize_city of every city of the model, computed once *)
CityKey == [c \in Cities |-> _normalize_city(c)]

(* the listings ingested before the pipeline runs, oldest first *)
InitialCities == {<<Opole, Opole>>, <<Opole, NoneCity>>}

(* the listings of the strategy-chain scenario, oldest first *)
ChainCities == {<<Warszewa, GmElk>>, <<GmElk, Warszewa>>, <<Warszewa, Warszewa>>}

(* coordinates the provider or an operator may supply *)
InRegion1 == <<522, 210>>
InRegion2 == <<549, 242>>
OutOfRegion1 == <<550, 210>>
OutOfRegion2 == <<522, 140>>

ProviderResponses ==
    {[kind |-> "none"], [kind |-> "timeout"], [kind |-> "quota"],
     [kind |-> "location", latitude |-> InRegion1[1], longitude |-> InRegion1[2]],
     [kind |-> "location", latitude |-> OutOfRegion1[1], longitude |-> OutOfRegion1[2]]}

ManualCoords == {InRegion2, OutOfRegion1}

(* models.py DEFAULT_GEOCODING_CONFIG, and the settings an operator picks *)
DEFAULT_GEOCODING_CONFIG == [enabled |-> TRUE, batch_size |-> 50, max_attempts |-> 3]

(* cli_tools --set-geocoding changes one setting of the stored record *)
ConfigChoices(cfg) ==
    {[cfg EXCEPT !.enabled = ~@]}
        \cup {[cfg EXCEPT !.max_attempts = m] : m \in {1, 3}}

----------------------------------------------------------------------------
VARIABLES
    properties,        \* properties table: id -> geocoding columns
    geocoding_cache,   \* geocoding_cache table: set of rows, city_key is the key
    failed_geocoding,  \* failed_geocoding table: rows in id order
    config,            \* system_config['geocoding_config']
    run,               \* per thread: the batch run in flight and its position
    runs_started,      \* number of runs started so far
    config_updates,    \* number of configuration updates so far
    fixes,             \* number of manual_geocoding_fix calls so far
    last_fix,          \* the last manual_geocoding_fix call: arguments and result
    system_health,     \* system_health table: bag of the rows written
    running,           \* GeocodingService.running, with _stop_event clear
    scheduler_threads, \* number of live _run_scheduler threads
    probe              \* a pure function under test: input and results

vars == <<properties, geocoding_cache, failed_geocoding, config, run,
          runs_started, config_updates, fixes, last_fix, system_health,
          running, scheduler_threads, probe>>

(* no pure function under test *)
NoProbe ==
    [fn |-> "none", input |-> <<>>, once |-> <<>>, twice |-> <<>>, applied |-> 0]

(* no manual_geocoding_fix call yet *)
NoFix ==
    [property_id |-> 0, latitude |-> NULL, longitude |-> NULL, returned |-> FALSE]

IdleRun ==
    [mode |-> "idle", pc |-> "idle", queue |-> <<>>, plan |-> <<>>,
     vi |-> 0, qi |-> 0, nq |-> 0,
     total_processed |-> 0, successful |-> 0, cached |-> 0, failed |-> 0,
     errors |-> 0]

Init ==
    /\ \E cities \in InitialCities :
          properties = [id \in Targets |->
                          [city |-> cities[id], geocoded |-> FALSE,
                           latitude |-> NULL, longitude |-> NULL,
                           geocoding_source |-> NullText,
                           geocoding_attempts |-> 0]]
    /\ geocoding_cache = {}
    /\ failed_geocoding = <<>>
    /\ config = DEFAULT_GEOCODING_CONFIG
    /\ run = [w \in Workers |-> IdleRun]
    /\ runs_started = 0
    /\ config_updates = 0
    /\ fixes = 0
    /\ last_fix = NoFix
    /\ system_health = EmptyBag
    /\ running = TRUE
    /\ scheduler_threads = 1
    /\ probe = NoProbe

----------------------------------------------------------------------------
(* DatabaseManager: geocoding operations *)

(* mutant: the success condition of the SELECT is inverted *)
get_cached_geocoding_failed_rows(cache, city) ==
    LET rows == {r \in cache : r.city_key = CityKey[city] /\ ~r.success}
    IN  IF rows = {} THEN <<>>
        ELSE LET r == CHOOSE r \in rows : TRUE IN <<r.latitude, r.longitude>>

(* SELECT latitude, longitude FROM geocoding_cache                         *)
(*   WHERE city_key = ? AND success = TRUE; None when there is no row      *)
get_cached_geocoding(cache, city) ==
    LET rows == {r \in cache : r.city_key = CityKey[city] /\ r.success}
    IN  IF rows = {} THEN <<>>
        ELSE LET r == CHOOSE r \in rows : TRUE IN <<r.latitude, r.longitude>>

(* mutant: a plain INSERT that keeps the existing row of the key *)
save_geocoding_result_plain_insert(cache, city, lat, lng, source, success) ==
    cache \cup {[city_key |-> CityKey[city], latitude |-> lat,
                 longitude |-> lng, source |-> source, success |-> success]}

(* mutant: only successful results are stored *)
save_geocoding_result_success_only(cache, city, lat, lng, source, success) ==
    IF ~success THEN cache
    ELSE {r \in cache : r.city_key # CityKey[city]}
            \cup {[city_key |-> CityKey[city], latitude |-> lat,
                   longitude |-> lng, source |-> source, success |-> success]}

(* INSERT OR REPLACE INTO geocoding_cache, city_key being the primary key *)
save_geocoding_result(cache, city, lat, lng, source, success) ==
    {r \in cache : r.city_key # CityKey[city]}
        \cup {[city_key |-> CityKey[city], latitude |-> lat,
               longitude |-> lng, source |-> source, success |-> success]}

(* INSERT OR IGNORE INTO failed_geocoding: the only key of the table is    *)
(* the autoincrement id, so no insert is ever ignored                      *)
_add_failed_geocoding(failed, property_id, city, attempts) ==
    Append(failed, [property_id |-> property_id, city |-> city,
                    attempts |-> attempts, resolved |-> FALSE])

(* mutant: geocoded is set whatever the coordinates are *)
update_property_geocoding_always_geocoded(props, failed, cfg, property_id, lat, lng, source) ==
    LET success == lat # NULL /\ lng # NULL
        after == IF property_id \notin DOMAIN props THEN props
                 ELSE [props EXCEPT ![property_id] =
                         [@ EXCEPT !.latitude = lat, !.longitude = lng,
                                   !.geocoded = TRUE,
                                   !.geocoding_source = source,
                                   !.geocoding_attempts = @ + 1]]
    IN  [properties |-> after,
         failed_geocoding |->
            IF /\ ~success
               /\ property_id \in DOMAIN after
               /\ after[property_id].geocoding_attempts >= cfg.max_attempts
            THEN _add_failed_geocoding(failed, property_id, after[property_id].city,
                                       after[property_id].geocoding_attempts)
            ELSE failed]

(* mutant: the counter is incremented on failure only *)
update_property_geocoding_count_failures(props, failed, cfg, property_id, lat, lng, source) ==
    LET success == lat # NULL /\ lng # NULL
        after == IF property_id \notin DOMAIN props THEN props
                 ELSE [props EXCEPT ![property_id] =
                         [@ EXCEPT !.latitude = lat, !.longitude = lng,
                                   !.geocoded = success,
                                   !.geocoding_source = source,
                                   !.geocoding_attempts =
                                        IF success THEN @ ELSE @ + 1]]
    IN  [properties |-> after,
         failed_geocoding |->
            IF /\ ~success
               /\ property_id \in DOMAIN after
               /\ after[property_id].geocoding_attempts >= cfg.max_attempts
            THEN _add_failed_geocoding(failed, property_id, after[property_id].city,
                                       after[property_id].geocoding_attempts)
            ELSE failed]

(* mutant: a successful write-back also marks the entries of the target resolved *)
update_property_geocoding_clears_entries(props, failed, cfg, property_id, lat, lng, source) ==
    LET success == lat # NULL /\ lng # NULL
        after == IF property_id \notin DOMAIN props THEN props
                 ELSE [props EXCEPT ![property_id] =
                         [@ EXCEPT !.latitude = lat, !.longitude = lng,
                                   !.geocoded = success,
                                   !.geocoding_source = source,
                                   !.geocoding_attempts = @ + 1]]
    IN  [properties |-> after,
         failed_geocoding |->
            IF success
            THEN [i \in 1..Len(failed) |->
                    IF failed[i].property_id = property_id
                    THEN [failed[i] EXCEPT !.resolved = TRUE] ELSE failed[i]]
            ELSE IF /\ property_id \in DOMAIN after
                    /\ after[property_id].geocoding_attempts >= cfg.max_attempts
            THEN _add_failed_geocoding(failed, property_id, after[property_id].city,
                                       after[property_id].geocoding_attempts)
            ELSE failed]

(* mutant: the escalation waits until the counter is above the maximum *)
update_property_geocoding_escalates_late(props, failed, cfg, property_id, lat, lng, source) ==
    LET success == lat # NULL /\ lng # NULL
        after == IF property_id \notin DOMAIN props THEN props
                 ELSE [props EXCEPT ![property_id] =
                         [@ EXCEPT !.latitude = lat, !.longitude = lng,
                                   !.geocoded = success,
                                   !.geocoding_source = source,
                                   !.geocoding_attempts = @ + 1]]
    IN  [properties |-> after,
         failed_geocoding |->
            IF /\ ~success
               /\ property_id \in DOMAIN after
               /\ after[property_id].geocoding_attempts > cfg.max_attempts
            THEN _add_failed_geocoding(failed, property_id, after[property_id].city,
                                       after[property_id].geocoding_attempts)
            ELSE failed]

(* mutant: the escalation does not look at the outcome of the write-back *)
update_property_geocoding_escalates_any_outcome(props, failed, cfg, property_id, lat, lng, source) ==
    LET success == lat # NULL /\ lng # NULL
        after == IF property_id \notin DOMAIN props THEN props
                 ELSE [props EXCEPT ![property_id] =
                         [@ EXCEPT !.latitude = lat, !.longitude = lng,
                                   !.geocoded = success,
                                   !.geocoding_source = source,
                                   !.geocoding_attempts = @ + 1]]
    IN  [properties |-> after,
         failed_geocoding |->
            IF /\ property_id \in DOMAIN after
               /\ after[property_id].geocoding_attempts >= cfg.max_attempts
            THEN _add_failed_geocoding(failed, property_id, after[property_id].city,
                                       after[property_id].geocoding_attempts)
            ELSE failed]

(* mutant: a failed write-back leaves geocoding_attempts as it was *)
update_property_geocoding_failure_not_counted(props, failed, cfg, property_id, lat, lng, source) ==
    LET success == lat # NULL /\ lng # NULL
        after == IF property_id \notin DOMAIN props THEN props
                 ELSE [props EXCEPT ![property_id] =
                         [@ EXCEPT !.latitude = lat, !.longitude = lng,
                                   !.geocoded = success,
                                   !.geocoding_source = source,
                                   !.geocoding_attempts =
                                       IF success THEN @ + 1 ELSE @]]
    IN  [properties |-> after,
         failed_geocoding |->
            IF /\ ~success
               /\ property_id \in DOMAIN after
               /\ after[property_id].geocoding_attempts >= cfg.max_attempts
            THEN _add_failed_geocoding(failed, property_id, after[property_id].city,
                                       after[property_id].geocoding_attempts)
            ELSE failed]

(* update_property_geocoding: the UPDATE of the properties row, then the   *)
(* escalation when the write-back was a failure and the incremented        *)
(* counter is at or above max_attempts                                     *)
update_property_geocoding(props, failed, cfg, property_id, lat, lng, source) ==
    LET success == lat # NULL /\ lng # NULL
        after == IF property_id \notin DOMAIN props THEN props
                 ELSE [props EXCEPT ![property_id] =
                         [@ EXCEPT !.latitude = lat, !.longitude = lng,
                                   !.geocoded = success,
                                   !.geocoding_source = source,
                                   !.geocoding_attempts = @ + 1]]
    IN  [properties |-> after,
         failed_geocoding |->
            IF /\ ~success
               /\ property_id \in DOMAIN after
               /\ after[property_id].geocoding_attempts >= cfg.max_attempts
            THEN _add_failed_geocoding(failed, property_id, after[property_id].city,
                                       after[property_id].geocoding_attempts)
            ELSE failed]

(* SELECT ... FROM properties WHERE geocoded = FALSE AND                   *)
(*   geocoding_attempts < max_attempts ORDER BY first_seen ASC LIMIT ?     *)
(* (targets are numbered in first_seen order)                              *)
RECURSIVE SelectRows(_, _, _)
SelectRows(props, ids, limit) ==
    IF ids = {} \/ limit <= 0 THEN <<>>
    ELSE LET id == CHOOSE i \in ids : \A j \in ids : i <= j
         IN  <<[id |-> id, city |-> props[id].city,
                geocoding_attempts |-> props[id].geocoding_attempts]>>
             \o SelectRows(props, ids \ {id}, limit - 1)

(* mutant: the attempts condition of the SELECT is missing *)
get_properties_for_geocoding_any_attempts(props, cfg, limit) ==
    SelectRows(props, {id \in DOMAIN props : ~props[id].geocoded}, limit)

(* mutant: geocoding_attempts <= max_attempts in the SELECT *)
get_properties_for_geocoding_up_to_max(props, cfg, limit) ==
    SelectRows(props,
               {id \in DOMAIN props : /\ ~props[id].geocoded
                                      /\ props[id].geocoding_attempts <= cfg.max_attempts},
               limit)

(* mutant: ORDER BY first_seen DESC *)
get_properties_for_geocoding_newest_first(props, cfg, limit) ==
    LET ids == {id \in DOMAIN props : /\ ~props[id].geocoded
                                       /\ props[id].geocoding_attempts < cfg.max_attempts}
        rows == SelectRows(props, ids, Cardinality(ids))
        k == IF limit < Len(rows) THEN limit ELSE Len(rows)
    IN  [i \in 1..k |-> rows[Len(rows) + 1 - i]]

(* mutant: a target whose city has a failed cache row is not pulled *)
get_properties_for_geocoding_skips_cached_failures(props, cfg, limit) ==
    SelectRows(props,
               {id \in DOMAIN props :
                    /\ ~props[id].geocoded
                    /\ props[id].geocoding_attempts < cfg.max_attempts
                    /\ ~\E r \in geocoding_cache :
                          r.city_key = CityKey[props[id].city] /\ ~r.success},
               limit)

get_properties_for_geocoding(props, cfg, limit) ==
    SelectRows(props,
               {id \in DOMAIN props : /\ ~props[id].geocoded
                                      /\ props[id].geocoding_attempts < cfg.max_attempts},
               limit)

(* SELECT ... FROM failed_geocoding WHERE resolved = FALSE                 *)
(*   ORDER BY last_attempt DESC LIMIT ?  (last_attempt is the insert time, *)
(*   so the newest row comes first)                                        *)
RECURSIVE SelectFailed(_, _, _)
SelectFailed(failed, ids, limit) ==
    IF ids = {} \/ limit <= 0 THEN <<>>
    ELSE LET i == CHOOSE i \in ids : \A j \in ids : i >= j
         IN  <<[entry_id |-> i, property_id |-> failed[i].property_id,
                city |-> failed[i].city, attempts |-> failed[i].attempts]>>
             \o SelectFailed(failed, ids \ {i}, limit - 1)

(* mutant: ORDER BY last_attempt ASC *)
get_failed_geocoding_entries_oldest_first(failed, limit) ==
    LET ids == {i \in 1..Len(failed) : ~failed[i].resolved}
        rows == SelectFailed(failed, ids, Cardinality(ids))
        k == IF limit < Len(rows) THEN limit ELSE Len(rows)
    IN  [i \in 1..k |-> rows[Len(rows) + 1 - i]]

(* mutant: the resolved condition of the SELECT is missing *)
get_failed_geocoding_entries_all(failed, limit) ==
    SelectFailed(failed, 1..Len(failed), limit)

get_failed_geocoding_entries(failed, limit) ==
    SelectFailed(failed, {i \in 1..Len(failed) : ~failed[i].resolved}, limit)

(* mutant: the manual update also resets the attempt counter *)
manual_geocoding_update_reset_attempts(props, failed, property_id, lat, lng) ==
    [properties |->
        IF property_id \notin DOMAIN props THEN props
        ELSE [props EXCEPT ![property_id] =
                [@ EXCEPT !.latitude = lat, !.longitude = lng, !.geocoded = TRUE,
                          !.geocoding_source = "manual",
                          !.geocoding_attempts = 0]],
     failed_geocoding |->
        [i \in 1..Len(failed) |->
            IF failed[i].property_id = property_id
            THEN [failed[i] EXCEPT !.resolved = TRUE] ELSE failed[i]],
     returned |->
        Cardinality({i \in 1..Len(failed) : failed[i].property_id = property_id}) > 0]

(* mutant: the failed_geocoding rows are left as they are *)
manual_geocoding_update_keep_entries(props, failed, property_id, lat, lng) ==
    [properties |->
        IF property_id \notin DOMAIN props THEN props
        ELSE [props EXCEPT ![property_id] =
                [@ EXCEPT !.latitude = lat, !.longitude = lng, !.geocoded = TRUE,
                          !.geocoding_source = "manual"]],
     failed_geocoding |-> failed,
     returned |->
        Cardinality({i \in 1..Len(failed) : failed[i].property_id = property_id}) > 0]

(* manual_geocoding_update: both UPDATE statements; it returns            *)
(* cursor.rowcount > 0, the row count of the second one                    *)
manual_geocoding_update(props, failed, property_id, lat, lng) ==
    [properties |->
        IF property_id \notin DOMAIN props THEN props
        ELSE [props EXCEPT ![property_id] =
                [@ EXCEPT !.latitude = lat, !.longitude = lng, !.geocoded = TRUE,
                          !.geocoding_source = "manual"]],
     failed_geocoding |->
        [i \in 1..Len(failed) |->
            IF failed[i].property_id = property_id
            THEN [failed[i] EXCEPT !.resolved = TRUE] ELSE failed[i]],
     returned |->
        Cardinality({i \in 1..Len(failed) : failed[i].property_id = property_id}) > 0]

----------------------------------------------------------------------------
(* PolishGeocodingWorker._try_geocoding_strategies: the variants it would  *)
(* query, in order, with the source tag each one yields.  order is the     *)
(* iteration order of the set built by generate_variants.  A None city     *)
(* gets through strategy 1 only: clean_city_name(None) raises.             *)
Orders(S) ==
    {s \in [1..Cardinality(S) -> S] : \A i, j \in DOMAIN s : s[i] = s[j] => i = j}

RECURSIVE FuzzyPlan(_, _)
FuzzyPlan(variants, city) ==
    IF variants = <<>> THEN <<>>
    ELSE (IF Head(variants) # city
          THEN <<[text |-> Head(variants), tag |-> "fuzzy"]>> ELSE <<>>)
         \o FuzzyPlan(Tail(variants), city)

(* mutant: strategy 2 returns the result of _geocode_basic as it is, tag included *)
_try_geocoding_strategies_cleaned_untagged(city, order) ==
    IF city = NoneCity THEN <<[text |-> city, tag |-> "nominatim"]>>
    ELSE LET cleaned_city == clean_city_name(city)
             corrected_city == get_corrected_city(city)
         IN  <<[text |-> city, tag |-> "nominatim"]>>
             \o (IF cleaned_city # city
                 THEN <<[text |-> cleaned_city, tag |-> "nominatim"]>> ELSE <<>>)
             \o (IF corrected_city # city
                 THEN <<[text |-> corrected_city, tag |-> "corrected"]>> ELSE <<>>)
             \o FuzzyPlan(SubSeq(order, 1, IF Len(order) < 8 THEN Len(order) ELSE 8),
                          city)

_try_geocoding_strategies(city, order) ==
    IF city = NoneCity THEN <<[text |-> city, tag |-> "nominatim"]>>
    ELSE LET cleaned_city == clean_city_name(city)
             corrected_city == get_corrected_city(city)
         IN  <<[text |-> city, tag |-> "nominatim"]>>
             \o (IF cleaned_city # city
                 THEN <<[text |-> cleaned_city, tag |-> "cleaned"]>> ELSE <<>>)
             \o (IF corrected_city # city
                 THEN <<[text |-> corrected_city, tag |-> "corrected"]>> ELSE <<>>)
             \o FuzzyPlan(SubSeq(order, 1, IF Len(order) < 8 THEN Len(order) ELSE 8),
                          city)

(* the chains a city can get, one per iteration order, computed once *)
StrategyChains ==
    [c \in Cities |->
        {_try_geocoding_strategies(c, order) :
            order \in Orders(IF c = NoneCity THEN {} ELSE generate_variants(c))}]

(* mutant: only an exception adds to the error list *)
CountItem_errors_only_on_exception(r, success, source) ==
    IF success
    THEN IF r.mode = "forward" /\ source = "cache"
         THEN [r EXCEPT !.cached = @ + 1]
         ELSE [r EXCEPT !.successful = @ + 1]
    ELSE IF source = "error" THEN [r EXCEPT !.failed = @ + 1, !.errors = @ + 1]
    ELSE [r EXCEPT !.failed = @ + 1]

(* mutant: a cache hit of a forward run is not counted *)
CountItem_cache_hit_not_counted(r, success, source) ==
    IF success
    THEN IF r.mode = "forward" /\ source = "cache"
         THEN r
         ELSE [r EXCEPT !.successful = @ + 1]
    ELSE [r EXCEPT !.failed = @ + 1, !.errors = @ + 1]

(* process_batch / retry_failed_geocoding: the counters after one item *)
CountItem(r, success, source) ==
    IF success
    THEN IF r.mode = "forward" /\ source = "cache"
         THEN [r EXCEPT !.cached = @ + 1]
         ELSE [r EXCEPT !.successful = @ + 1]
    ELSE [r EXCEPT !.failed = @ + 1, !.errors = @ + 1]

NewRun(mode, rows) ==
    [IdleRun EXCEPT !.mode = mode, !.pc = "lookup", !.queue = rows,
                    !.total_processed = Len(rows)]

EmptyOutcome(mode, nerrors) ==
    [IdleRun EXCEPT !.mode = mode, !.pc = "done", !.errors = nerrors]

CanStart(w) == run[w].pc = "idle" /\ runs_started < MaxRuns

----------------------------------------------------------------------------
(* mutant: the enabled setting is not consulted *)
StartForward_ignores_enabled(w, batch_size) ==
    /\ CanStart(w)
    /\ w = "scheduler" => running /\ batch_size = NULL
    /\ runs_started' = runs_started + 1
    /\ LET limit == IF batch_size = NULL THEN config.batch_size ELSE batch_size
           rows == get_properties_for_geocoding(properties, config, limit)
       IN  run' = [run EXCEPT ![w] =
                     IF rows = <<>> THEN EmptyOutcome("forward", 0)
                     ELSE NewRun("forward", rows)]
    /\ UNCHANGED <<properties, geocoding_cache, failed_geocoding, config,
                   config_updates, fixes, last_fix, system_health, running,
                   scheduler_threads,
                   probe>>

(* process_batch up to the loop: _geocoding_job, fired by the scheduler    *)
(* loop while the service is running, passes no batch size;                *)
(* manual_geocoding passes the caller's (NULL is None)                     *)
StartForward(w, batch_size) ==
    /\ CanStart(w)
    /\ w = "scheduler" => running /\ batch_size = NULL
    /\ runs_started' = runs_started + 1
    /\ LET limit == IF batch_size = NULL THEN config.batch_size ELSE batch_size
           rows == get_properties_for_geocoding(properties, config, limit)
       IN  run' = [run EXCEPT ![w] =
                     IF ~config.enabled THEN EmptyOutcome("forward", 1)
                     ELSE IF rows = <<>> THEN EmptyOutcome("forward", 0)
                     ELSE NewRun("forward", rows)]
    /\ UNCHANGED <<properties, geocoding_cache, failed_geocoding, config,
                   config_updates, fixes, last_fix, system_health, running,
                   scheduler_threads,
                   probe>>

(* retry_failed_geocoding up to the loop *)
StartRetry(w, max_retries) ==
    /\ CanStart(w)
    /\ w = "ondemand"
    /\ runs_started' = runs_started + 1
    /\ LET entries == get_failed_geocoding_entries(failed_geocoding, max_retries)
           rows == [i \in 1..Len(entries) |->
                      [id |-> entries[i].property_id, city |-> entries[i].city]]
       IN  run' = [run EXCEPT ![w] =
                     IF rows = <<>> THEN EmptyOutcome("retry", 0)
                     ELSE NewRun("retry", rows)]
    /\ UNCHANGED <<properties, geocoding_cache, failed_geocoding, config,
                   config_updates, fixes, last_fix, system_health, running,
                   scheduler_threads,
                   probe>>

(* mutant: a cache hit goes on to the next target without the sleep *)
CacheLookup_hit_skips_delay(w) ==
    /\ run[w].pc = "lookup"
    /\ LET prop == Head(run[w].queue)
           cached_result == get_cached_geocoding(geocoding_cache, prop.city)
           r0 == [run[w] EXCEPT !.nq = 0]
       IN  IF cached_result # <<>>
           THEN LET upd == update_property_geocoding(properties, failed_geocoding,
                               config, prop.id, cached_result[1], cached_result[2],
                               "cache")
                IN  /\ properties' = upd.properties
                    /\ failed_geocoding' = upd.failed_geocoding
                    /\ run' = [run EXCEPT ![w] =
                                 [CountItem(r0, TRUE, "cache") EXCEPT
                                    !.queue = Tail(@),
                                    !.pc = IF Len(r0.queue) > 1 THEN "lookup"
                                           ELSE "done"]]
           ELSE /\ \E chain \in StrategyChains[prop.city] :
                      run' = [run EXCEPT ![w] =
                                [r0 EXCEPT !.pc = "query", !.vi = 1, !.qi = 1,
                                           !.plan = chain]]
                /\ UNCHANGED <<properties, failed_geocoding>>
    /\ UNCHANGED <<geocoding_cache, config, runs_started, config_updates,
                   fixes, last_fix, system_health, running,
                   scheduler_threads, probe>>

(* geocode_property, the cache check: a hit is written back at once with   *)
(* source "cache"; a miss starts the strategy chain                        *)
CacheLookup(w) ==
    /\ run[w].pc = "lookup"
    /\ LET prop == Head(run[w].queue)
           cached_result == get_cached_geocoding(geocoding_cache, prop.city)
           r0 == [run[w] EXCEPT !.nq = 0]
       IN  IF cached_result # <<>>
           THEN LET upd == update_property_geocoding(properties, failed_geocoding,
                               config, prop.id, cached_result[1], cached_result[2],
                               "cache")
                IN  /\ properties' = upd.properties
                    /\ failed_geocoding' = upd.failed_geocoding
                    /\ run' = [run EXCEPT ![w] =
                                 [CountItem(r0, TRUE, "cache") EXCEPT !.pc = "delay"]]
           ELSE /\ \E chain \in StrategyChains[prop.city] :
                      run' = [run EXCEPT ![w] =
                                [r0 EXCEPT !.pc = "query", !.vi = 1, !.qi = 1,
                                           !.plan = chain]]
                /\ UNCHANGED <<properties, failed_geocoding>>
    /\ UNCHANGED <<geocoding_cache, config, runs_started, config_updates,
                   fixes, last_fix, system_health, running,
                   scheduler_threads, probe>>

(* mutant: a timeout ends the chain of the item *)
Query_timeout_aborts(w, resp) ==
    /\ run[w].pc = "query"
    /\ LET r == run[w]
           prop == Head(r.queue)
           r1 == [r EXCEPT !.nq = @ + 1]
           ended == [r1 EXCEPT !.pc = "delay", !.plan = <<>>, !.vi = 0, !.qi = 0]
           found == /\ resp.kind = "location"
                    /\ _is_in_poland(resp.latitude, resp.longitude)
           last == (r.qi = 2 /\ r.vi = Len(r.plan)) \/ resp.kind = "timeout"
       IN  IF found
           THEN LET source == r.plan[r.vi].tag
                    upd == update_property_geocoding(properties, failed_geocoding,
                               config, prop.id, resp.latitude, resp.longitude, source)
                IN  /\ geocoding_cache' = save_geocoding_result(geocoding_cache,
                           prop.city, resp.latitude, resp.longitude, source, TRUE)
                    /\ properties' = upd.properties
                    /\ failed_geocoding' = upd.failed_geocoding
                    /\ run' = [run EXCEPT ![w] =
                                 CountItem(ended, TRUE, source)]
           ELSE IF ~last
           THEN /\ run' = [run EXCEPT ![w] =
                             IF r.qi = 1 THEN [r1 EXCEPT !.qi = 2]
                             ELSE [r1 EXCEPT !.vi = @ + 1, !.qi = 1]]
                /\ UNCHANGED <<properties, geocoding_cache, failed_geocoding>>
           ELSE IF prop.city = NoneCity
           THEN LET upd == update_property_geocoding(properties, failed_geocoding,
                               config, prop.id, NULL, NULL, "error")
                IN  /\ properties' = upd.properties
                    /\ failed_geocoding' = upd.failed_geocoding
                    /\ run' = [run EXCEPT ![w] =
                                 CountItem(ended, FALSE, "error")]
                    /\ UNCHANGED geocoding_cache
           ELSE LET upd == update_property_geocoding(properties, failed_geocoding,
                               config, prop.id, NULL, NULL, "failed")
                IN  /\ geocoding_cache' = save_geocoding_result(geocoding_cache,
                           prop.city, NULL, NULL, "failed", FALSE)
                    /\ properties' = upd.properties
                    /\ failed_geocoding' = upd.failed_geocoding
                    /\ run' = [run EXCEPT ![w] =
                                 CountItem(ended, FALSE, "failed")]
    /\ UNCHANGED <<config, runs_started, config_updates, fixes, last_fix,
                   system_health, running, scheduler_threads, probe>>

(* mutant: an in-region answer is written back but the chain goes on *)
Query_continues_after_match(w, resp) ==
    /\ run[w].pc = "query"
    /\ LET r == run[w]
           prop == Head(r.queue)
           r1 == [r EXCEPT !.nq = @ + 1]
           ended == [r1 EXCEPT !.pc = "delay", !.plan = <<>>, !.vi = 0, !.qi = 0]
           next == IF r.qi = 1 THEN [r1 EXCEPT !.qi = 2]
                   ELSE [r1 EXCEPT !.vi = @ + 1, !.qi = 1]
           found == /\ resp.kind = "location"
                    /\ _is_in_poland(resp.latitude, resp.longitude)
           last == r.qi = 2 /\ r.vi = Len(r.plan)
       IN  IF found
           THEN LET source == r.plan[r.vi].tag
                    upd == update_property_geocoding(properties, failed_geocoding,
                               config, prop.id, resp.latitude, resp.longitude, source)
                IN  /\ geocoding_cache' = save_geocoding_result(geocoding_cache,
                           prop.city, resp.latitude, resp.longitude, source, TRUE)
                    /\ properties' = upd.properties
                    /\ failed_geocoding' = upd.failed_geocoding
                    /\ run' = [run EXCEPT ![w] =
                                 IF last THEN CountItem(ended, TRUE, source)
                                 ELSE next]
           ELSE IF ~last
           THEN /\ run' = [run EXCEPT ![w] = next]
                /\ UNCHANGED <<properties, geocoding_cache, failed_geocoding>>
           ELSE IF prop.city = NoneCity
           THEN LET upd == update_property_geocoding(properties, failed_geocoding,
                               config, prop.id, NULL, NULL, "error")
                IN  /\ properties' = upd.properties
                    /\ failed_geocoding' = upd.failed_geocoding
                    /\ run' = [run EXCEPT ![w] =
                                 CountItem(ended, FALSE, "error")]
                    /\ UNCHANGED geocoding_cache
           ELSE LET upd == update_property_geocoding(properties, failed_geocoding,
                               config, prop.id, NULL, NULL, "failed")
                IN  /\ geocoding_cache' = save_geocoding_result(geocoding_cache,
                           prop.city, NULL, NULL, "failed", FALSE)
                    /\ properties' = upd.properties
                    /\ failed_geocoding' = upd.failed_geocoding
                    /\ run' = [run EXCEPT ![w] =
                                 CountItem(ended, FALSE, "failed")]
    /\ UNCHANGED <<config, runs_started, config_updates, fixes, last_fix,
                   system_health, running, scheduler_threads, probe>>

(* _geocode_basic, one nominatim.geocode call of the chain, and what       *)
(* geocode_property writes when that call ends the chain                   *)
Query(w, resp) ==
    /\ run[w].pc = "query"
    /\ LET r == run[w]
           prop == Head(r.queue)
           r1 == [r EXCEPT !.nq = @ + 1]
           ended == [r1 EXCEPT !.pc = "delay", !.plan = <<>>, !.vi = 0, !.qi = 0]
           found == /\ resp.kind = "location"
                    /\ _is_in_poland(resp.latitude, resp.longitude)
           last == r.qi = 2 /\ r.vi = Len(r.plan)
       IN  IF found
           THEN LET source == r.plan[r.vi].tag
                    upd == update_property_geocoding(properties, failed_geocoding,
                               config, prop.id, resp.latitude, resp.longitude, source)
                IN  /\ geocoding_cache' = save_geocoding_result(geocoding_cache,
                           prop.city, resp.latitude, resp.longitude, source, TRUE)
                    /\ properties' = upd.properties
                    /\ failed_geocoding' = upd.failed_geocoding
                    /\ run' = [run EXCEPT ![w] =
                                 CountItem(ended, TRUE, source)]
           ELSE IF ~last
           THEN /\ run' = [run EXCEPT ![w] =
                             IF r.qi = 1 THEN [r1 EXCEPT !.qi = 2]
                             ELSE [r1 EXCEPT !.vi = @ + 1, !.qi = 1]]
                /\ UNCHANGED <<properties, geocoding_cache, failed_geocoding>>
           ELSE IF prop.city = NoneCity
           THEN LET upd == update_property_geocoding(properties, failed_geocoding,
                               config, prop.id, NULL, NULL, "error")
                IN  /\ properties' = upd.properties
                    /\ failed_geocoding' = upd.failed_geocoding
                    /\ run' = [run EXCEPT ![w] =
                                 CountItem(ended, FALSE, "error")]
                    /\ UNCHANGED geocoding_cache
           ELSE LET upd == update_property_geocoding(properties, failed_geocoding,
                               config, prop.id, NULL, NULL, "failed")
                IN  /\ geocoding_cache' = save_geocoding_result(geocoding_cache,
                           prop.city, NULL, NULL, "failed", FALSE)
                    /\ properties' = upd.properties
                    /\ failed_geocoding' = upd.failed_geocoding
                    /\ run' = [run EXCEPT ![w] =
                                 CountItem(ended, FALSE, "failed")]
    /\ UNCHANGED <<config, runs_started, config_updates, fixes, last_fix,
                   system_health, running, scheduler_threads, probe>>

(* the sleep after an item, then the next item or the return of the run *)
Delay(w) ==
    /\ run[w].pc = "delay"
    /\ run' = [run EXCEPT ![w] =
                 IF Len(@.queue) > 1
                 THEN [@ EXCEPT !.queue = Tail(@), !.pc = "lookup"]
                 ELSE [@ EXCEPT !.queue = <<>>, !.pc = "done"]]
    /\ UNCHANGED <<properties, geocoding_cache, failed_geocoding, config,
                   runs_started, config_updates, fixes, last_fix,
                   system_health, running, scheduler_threads, probe>>

(* DatabaseManager.log_health_event: one more row in system_health *)
log_health_event(health, status, message) ==
    health (+) SetToBag({[component |-> "geocoding", status |-> status,
                          message |-> message]})

(* the run returns its BatchGeocodingResult to the caller: _geocoding_job  *)
(* and manual_geocoding log the outcome of process_batch,                  *)
(* retry_failed_geocoding returns its result and logs nothing.  After a    *)
(* scheduled job the scheduler thread is back in its loop, which it leaves *)
(* when the stop event is set and goes on with otherwise                   *)
Return(w) ==
    /\ run[w].pc = "done"
    /\ run' = [run EXCEPT ![w] = IdleRun]
    /\ system_health' =
          IF run[w].mode = "forward"
          THEN log_health_event(system_health,
                   IF run[w].failed = 0 THEN "success" ELSE "warning",
                   "Geocoding batch completed")
          ELSE system_health
    /\ scheduler_threads' =
          IF w = "scheduler" /\ ~running THEN scheduler_threads - 1
          ELSE scheduler_threads
    /\ UNCHANGED <<properties, geocoding_cache, failed_geocoding, config,
                   runs_started, config_updates, fixes, last_fix, running,
                   probe>>

(* GeocodingService.manual_geocoding_fix *)
ManualFix(property_id, latitude, longitude) ==
    /\ fixes < MaxFixes
    /\ fixes' = fixes + 1
    /\ IF ~_is_in_poland(latitude, longitude)
       THEN /\ last_fix' = [property_id |-> property_id, latitude |-> latitude,
                            longitude |-> longitude, returned |-> FALSE]
            /\ UNCHANGED <<properties, failed_geocoding, system_health>>
       ELSE LET upd == manual_geocoding_update(properties, failed_geocoding,
                                               property_id, latitude, longitude)
            IN  /\ properties' = upd.properties
                /\ failed_geocoding' = upd.failed_geocoding
                /\ last_fix' = [property_id |-> property_id, latitude |-> latitude,
                                longitude |-> longitude, returned |-> upd.returned]
                /\ system_health' =
                      IF upd.returned
                      THEN log_health_event(system_health, "success",
                                            "Manual geocoding fix applied")
                      ELSE system_health
    /\ UNCHANGED <<geocoding_cache, config, run, runs_started, config_updates,
                   running, scheduler_threads, probe>>

(* GeocodingService.update_geocoding_config *)
UpdateConfig(c) ==
    /\ c # config
    /\ config_updates < MaxConfigUpdates
    /\ config_updates' = config_updates + 1
    /\ config' = c
    /\ system_health' = log_health_event(system_health, "success",
                                         "Geocoding configuration updated")
    /\ UNCHANGED <<properties, geocoding_cache, failed_geocoding, run,
                   runs_started, fixes, last_fix, running,
                   scheduler_threads, probe>>

(* GeocodingService.stop_service: the flag and the stop event end the      *)
(* scheduler loop and the scheduled job is cleared; nothing else reads     *)
(* them.  A scheduler thread waiting in its loop wakes up and exits; one   *)
(* that is inside a scheduled job stays alive and the join times out       *)
StopService ==
    /\ running
    /\ running' = FALSE
    /\ scheduler_threads' = IF run["scheduler"].pc # "idle" THEN 1 ELSE 0
    /\ UNCHANGED <<properties, geocoding_cache, failed_geocoding, config, run,
                   runs_started, config_updates, fixes, last_fix,
                   system_health, probe>>

(* GeocodingService.start_service: returns at once when already running;   *)
(* otherwise sets the flag, clears the stop event, schedules the job and   *)
(* starts a new scheduler thread                                           *)
StartService ==
    /\ ~running
    /\ running' = TRUE
    /\ scheduler_threads' = scheduler_threads + 1
    /\ UNCHANGED <<properties, geocoding_cache, failed_geocoding, config, run,
                   runs_started, config_updates, fixes, last_fix,
                   system_health, probe>>

Next ==
    \/ \E w \in Workers, batch_size \in {NULL, 1} : StartForward(w, batch_size)
    \/ \E w \in Workers, max_retries \in {1, 50} : StartRetry(w, max_retries)
    \/ \E w \in Workers : CacheLookup(w)
    \/ \E w \in Workers, resp \in ProviderResponses : Query(w, resp)
    \/ \E w \in Workers : Delay(w)
    \/ \E w \in Workers : Return(w)
    \/ \E id \in ManualIds, c \in ManualCoords : ManualFix(id, c[1], c[2])
    \/ \E c \in ConfigChoices(config) : UpdateConfig(c)

Spec == Init /\ [][Next]_vars

(* the same operations applied one after another: a run is started, a      *)
(* manual fix applied or the configuration changed only while no run is    *)
(* in flight                                                               *)
NoRunInFlight == \A w \in Workers : run[w].pc = "idle"

NextSeq ==
    \/ NoRunInFlight /\ \E w \in Workers, batch_size \in {NULL, 1} :
                            StartForward(w, batch_size)
    \/ NoRunInFlight /\ \E w \in Workers, max_retries \in {1, 50} :
                            StartRetry(w, max_retries)
    \/ \E w \in Workers : CacheLookup(w)
    \/ \E w \in Workers, resp \in ProviderResponses : Query(w, resp)
    \/ \E w \in Workers : Delay(w)
    \/ \E w \in Workers : Return(w)
    \/ NoRunInFlight /\ \E id \in ManualIds, c \in ManualCoords :
                            ManualFix(id, c[1], c[2])
    \/ NoRunInFlight /\ \E c \in ConfigChoices(config) : UpdateConfig(c)

SpecSeq == Init /\ [][NextSeq]_vars

(* forward batch passes one after another against a provider that never    *)
(* answers with an in-region location (no match, timeout, quota signal or  *)
(* a location outside the rectangle); the configuration is set before the  *)
(* first pass and there is no manual fix and no retry-mode run             *)
NoMatchResponses ==
    {r \in ProviderResponses :
        ~(r.kind = "location" /\ _is_in_poland(r.latitude, r.longitude))}

(* the settings the scenario starts from: max_attempts 2 as well *)
ScenarioConfigs(cfg) == ConfigChoices(cfg) \cup {[cfg EXCEPT !.max_attempts = 2]}

NextNoMatch ==
    \/ NoRunInFlight /\ runs_started = 0
                     /\ \E c \in ScenarioConfigs(config) : UpdateConfig(c)
    \/ NoRunInFlight /\ \E w \in Workers, batch_size \in {NULL, 1} :
                            StartForward(w, batch_size)
    \/ \E w \in Workers : CacheLookup(w)
    \/ \E w \in Workers, resp \in NoMatchResponses : Query(w, resp)
    \/ \E w \in Workers : Delay(w)
    \/ \E w \in Workers : Return(w)

SpecNoMatch == Init /\ [][NextNoMatch]_vars

(* forward passes one after another over listings whose cities go through  *)
(* the cleaned, corrected and fuzzy strategies                             *)
InitChain ==
    /\ \E cities \in ChainCities :
          properties = [id \in Targets |->
                          [city |-> cities[id], geocoded |-> FALSE,
                           latitude |-> NULL, longitude |-> NULL,
                           geocoding_source |-> NullText,
                           geocoding_attempts |-> 0]]
    /\ geocoding_cache = {}
    /\ failed_geocoding = <<>>
    /\ config = DEFAULT_GEOCODING_CONFIG
    /\ run = [w \in Workers |-> IdleRun]
    /\ runs_started = 0
    /\ config_updates = 0
    /\ fixes = 0
    /\ last_fix = NoFix
    /\ system_health = EmptyBag
    /\ running = TRUE
    /\ scheduler_threads = 1
    /\ probe = NoProbe

NextChain ==
    \/ NoRunInFlight /\ \E w \in Workers, batch_size \in {NULL, 1} :
                            StartForward(w, batch_size)
    \/ \E w \in Workers : CacheLookup(w)
    \/ \E w \in Workers, resp \in ProviderResponses : Query(w, resp)
    \/ \E w \in Workers : Delay(w)
    \/ \E w \in Workers : Return(w)

SpecChain == InitChain /\ [][NextChain]_vars

(* the operations one after another, with a shutdown of the service at    *)
(* any moment, a run in flight included                                    *)
NextStop ==
    \/ NoRunInFlight /\ \E w \in Workers, batch_size \in {NULL, 1} :
                            StartForward(w, batch_size)
    \/ NoRunInFlight /\ \E w \in Workers, max_retries \in {1, 50} :
                            StartRetry(w, max_retries)
    \/ \E w \in Workers : CacheLookup(w)
    \/ \E w \in Workers, resp \in ProviderResponses : Query(w, resp)
    \/ \E w \in Workers : Delay(w)
    \/ \E w \in Workers : Return(w)
    \/ StopService

SpecStop == Init /\ [][NextStop]_vars

(* _normalize_city applied to a city string and then to its own result *)
ProbeWords ==
    { <<"g", "m", "i", "n", "a", " ">>, <<"M", ".", " ">>, <<" ">>,
      <<"E", "l/", "k">>, <<"Z.", "o'", "r", "y", "-", "2">>, <<"C|">> }

ProbeCities ==
    {NoneCity, <<>>} \cup ProbeWords
        \cup {a \o b : a \in ProbeWords, b \in ProbeWords}
        \cup {a \o b \o c : a \in ProbeWords, b \in ProbeWords, c \in ProbeWords}

InitNormalize ==
    /\ properties = [id \in Targets |->
                        [city |-> Opole, geocoded |-> FALSE,
                         latitude |-> NULL, longitude |-> NULL,
                         geocoding_source |-> NullText,
                         geocoding_attempts |-> 0]]
    /\ geocoding_cache = {}
    /\ failed_geocoding = <<>>
    /\ config = DEFAULT_GEOCODING_CONFIG
    /\ run = [w \in Workers |-> IdleRun]
    /\ runs_started = 0
    /\ config_updates = 0
    /\ fixes = 0
    /\ last_fix = NoFix
    /\ system_health = EmptyBag
    /\ running = TRUE
    /\ scheduler_threads = 1
    /\ \E city \in ProbeCities :
          probe = [NoProbe EXCEPT !.fn = "_normalize_city", !.input = city]

NormalizeCity ==
    /\ probe.fn = "_normalize_city"
    /\ probe.applied < 2
    /\ probe' = IF probe.applied = 0
                THEN [probe EXCEPT !.once = _normalize_city(probe.input),
                                   !.applied = 1]
                ELSE [probe EXCEPT !.twice = _normalize_city(probe.once),
                                   !.applied = 2]
    /\ UNCHANGED <<properties, geocoding_cache, failed_geocoding, config, run,
                   runs_started, config_updates, fixes, last_fix,
                   system_health, running, scheduler_threads>>

SpecNormalize == InitNormalize /\ [][NormalizeCity]_vars

(* _is_in_poland applied to coordinates on, next to and away from the     *)
(* bounds                                                                  *)
ProbeLatitudes == {480, 489, 490, 491, 520, 548, 549, 550, 560}

ProbeLongitudes == {130, 140, 141, 142, 190, 241, 242, 243, 250}

InitRegion ==
    /\ properties = [id \in Targets |->
                        [city |-> Opole, geocoded |-> FALSE,
                         latitude |-> NULL, longitude |-> NULL,
                         geocoding_source |-> NullText,
                         geocoding_attempts |-> 0]]
    /\ geocoding_cache = {}
    /\ failed_geocoding = <<>>
    /\ config = DEFAULT_GEOCODING_CONFIG
    /\ run = [w \in Workers |-> IdleRun]
    /\ runs_started = 0
    /\ config_updates = 0
    /\ fixes = 0
    /\ last_fix = NoFix
    /\ system_health = EmptyBag
    /\ running = TRUE
    /\ scheduler_threads = 1
    /\ \E lat \in ProbeLatitudes, lng \in ProbeLongitudes :
          probe = [NoProbe EXCEPT !.fn = "_is_in_poland", !.input = <<lat, lng>>]

IsInPoland ==
    /\ probe.fn = "_is_in_poland"
    /\ probe.applied = 0
    /\ probe' = [probe EXCEPT !.once = _is_in_poland(probe.input[1], probe.input[2]),
                              !.applied = 1]
    /\ UNCHANGED <<properties, geocoding_cache, failed_geocoding, config, run,
                   runs_started, config_updates, fixes, last_fix,
                   system_health, running, scheduler_threads>>

SpecRegion == InitRegion /\ [][IsInPoland]_vars

(* forward and retry-mode runs one after another with the configured      *)
(* maximum fixed: the configuration is set before the first run only       *)
NextFixedMax ==
    \/ NoRunInFlight /\ runs_started = 0
                     /\ \E c \in ConfigChoices(config) : UpdateConfig(c)
    \/ NoRunInFlight /\ \E w \in Workers, batch_size \in {NULL, 1} :
                            StartForward(w, batch_size)
    \/ NoRunInFlight /\ \E w \in Workers, max_retries \in {1, 50} :
                            StartRetry(w, max_retries)
    \/ \E w \in Workers : CacheLookup(w)
    \/ \E w \in Workers, resp \in ProviderResponses : Query(w, resp)
    \/ \E w \in Workers : Delay(w)
    \/ \E w \in Workers : Return(w)

SpecFixedMax == Init /\ [][NextFixedMax]_vars

(* repeated forward runs, one after another, with geocoding enabled and    *)
(* no other operation: the settings are those whose worst case (every      *)
(* attempt fails) fits in the runs of the model, max_attempts runs for a   *)
(* batch that holds all targets and max_attempts runs per target for a     *)
(* batch of one.  The scheduler keeps firing the job and every provider    *)
(* call returns (timeout=10), so a step that can be taken is taken         *)
DrainConfigs ==
    {[DEFAULT_GEOCODING_CONFIG EXCEPT !.max_attempts = m, !.batch_size = b] :
        m \in 1..MaxRuns,
        b \in {1, DEFAULT_GEOCODING_CONFIG.batch_size}}

RunsNeeded(cfg) ==
    cfg.max_attempts * (IF cfg.batch_size >= Cardinality(Targets) THEN 1
                        ELSE Cardinality(Targets))

InitDrain ==
    /\ \E cities \in InitialCities :
          properties = [id \in Targets |->
                          [city |-> cities[id], geocoded |-> FALSE,
                           latitude |-> NULL, longitude |-> NULL,
                           geocoding_source |-> NullText,
                           geocoding_attempts |-> 0]]
    /\ geocoding_cache = {}
    /\ failed_geocoding = <<>>
    /\ config \in {c \in DrainConfigs : RunsNeeded(c) <= MaxRuns}
    /\ run = [w \in Workers |-> IdleRun]
    /\ runs_started = 0
    /\ config_updates = 0
    /\ fixes = 0
    /\ last_fix = NoFix
    /\ system_health = EmptyBag
    /\ running = TRUE
    /\ scheduler_threads = 1
    /\ probe = NoProbe

NextDrain ==
    \/ NoRunInFlight /\ \E w \in Workers : StartForward(w, NULL)
    \/ \E w \in Workers : CacheLookup(w)
    \/ \E w \in Workers, resp \in ProviderResponses : Query(w, resp)
    \/ \E w \in Workers : Delay(w)
    \/ \E w \in Workers : Return(w)

SpecDrain == InitDrain /\ [][NextDrain]_vars /\ WF_vars(NextDrain)

(* the operations one after another, with the service stopped and started *)
(* again at any moment                                                     *)
NextRestart ==
    \/ NextStop
    \/ StartService

SpecRestart == Init /\ [][NextRestart]_vars

----------------------------------------------------------------------------
(* Vocabulary of the properties *)

EntriesOf(t) == {i \in 1..Len(failed_geocoding) : failed_geocoding[i].property_id = t}

InsideRectangle(lat, lng) ==
    /\ lat # NULL /\ lng # NULL
    /\ lat >= 490 /\ lat <= 549 /\ lng >= 141 /\ lng <= 242

Resolved(t) == properties[t].geocoded

Escalated(t) ==
    ~properties[t].geocoded /\ properties[t].geocoding_attempts >= config.max_attempts

(* worker w completes the item at the head of its queue in this step *)
FinishesItem(w) == run[w].pc \in {"lookup", "query"} /\ run'[w].pc = "delay"

CurrentId(w) == Head(run[w].queue).id

SuccessfulEntry(city) ==
    \E r \in geocoding_cache : r.city_key = CityKey[city] /\ r.success

----------------------------------------------------------------------------
(* C1: for every target at most one escalated entry ever exists.           *)
(* The code inserts a new row at every failed write-back whose counter is  *)
(* at or above the maximum, so this is violated.                           *)
C1_AtMostOneEntryPerTarget ==
    \A t \in Targets : Cardinality(EntriesOf(t)) <= 1

(* C2: every target marked resolved has latitude and longitude set, and    *)
(* the pair lies in the region rectangle, whichever path resolved it.      *)
C2_ResolvedHasRegionCoordinates ==
    \A t \in Targets :
        Resolved(t) => InsideRectangle(properties[t].latitude, properties[t].longitude)

C2_Witness ==
    /\ \E t \in Targets : Resolved(t) /\ properties[t].geocoding_source = "cache"
    /\ \E t \in Targets : Resolved(t) /\ properties[t].geocoding_source = "manual"

(* C3: an item of a forward batch run increases the attempt counter of its *)
(* target by exactly 1, whether it ends in a cache hit, a fresh success, a *)
(* no-match failure or an error.                                           *)
C3_ForwardItemIncrementsByOne ==
    [][\A w \in Workers :
          (run[w].mode = "forward" /\ FinishesItem(w)) =>
              properties'[CurrentId(w)].geocoding_attempts =
                  properties[CurrentId(w)].geocoding_attempts + 1]_vars

C3_Witness ==
    \E w \in Workers :
        /\ run[w].mode = "forward" /\ run[w].pc = "delay"
        /\ run[w].successful + run[w].cached >= 1
        /\ run[w].failed >= 1

(* C4: no step decreases a target's attempt counter, and a manual          *)
(* resolution leaves it unchanged.                                         *)
C4_AttemptsNeverDecrease ==
    [][\A t \in Targets :
          /\ properties'[t].geocoding_attempts >= properties[t].geocoding_attempts
          /\ fixes' # fixes =>
                properties'[t].geocoding_attempts = properties[t].geocoding_attempts]_vars

C4_Witness ==
    \E t \in Targets :
        /\ properties[t].geocoding_source = "manual"
        /\ properties[t].geocoding_attempts >= 1
        /\ config_updates >= 1

C6_OnlyManualResolvesEscalated ==
    [][\A t \in Targets :
          (Escalated(t) /\ properties'[t].geocoded) => fixes' # fixes]_vars

(* C6 amended: with operations applied one after another, an escalated     *)
(* target becomes resolved only by a manual resolution or by an item of a  *)
(* retry-mode run; no forward run resolves it.                             *)
C6_EscalatedResolvedByManualOrRetry ==
    [][\A t \in Targets :
          (Escalated(t) /\ properties'[t].geocoded) =>
              \/ fixes' # fixes
              \/ \E w \in Workers :
                    /\ run[w].mode = "retry" /\ FinishesItem(w)
                    /\ CurrentId(w) = t]_vars

C6_Witness ==
    \E w \in Workers :
        /\ run[w].mode = "retry" /\ run[w].pc = "delay"
        /\ run[w].nq >= 1 /\ run[w].successful >= 1
        /\ Resolved(CurrentId(w))
        /\ properties[CurrentId(w)].geocoding_attempts > config.max_attempts

(* C7: a manual fix with a coordinate outside the rectangle reports        *)
(* failure and changes no target and no escalated entry.                   *)
C7_OutOfRegionFixRejected ==
    [][\A id \in ManualIds, c \in ManualCoords :
          (~InsideRectangle(c[1], c[2]) /\ ManualFix(id, c[1], c[2])) =>
              /\ last_fix'.returned = FALSE
              /\ UNCHANGED <<properties, failed_geocoding, geocoding_cache>>]_vars

C7_Witness ==
    /\ fixes >= 1 /\ ~last_fix.returned
    /\ ~InsideRectangle(last_fix.latitude, last_fix.longitude)
    /\ last_fix.property_id \in Targets
    /\ Escalated(last_fix.property_id)
    /\ \E i \in EntriesOf(last_fix.property_id) : ~failed_geocoding[i].resolved

(* C8: a manual fix with an in-region coordinate on an escalated target    *)
(* writes the pair, marks the target resolved with source manual and marks *)
(* every escalated entry of the target resolved, so the target is no       *)
(* longer listed for review.                                               *)
C8_InRegionFixResolves ==
    [][\A id \in Targets, c \in ManualCoords :
          (/\ InsideRectangle(c[1], c[2])
           /\ Escalated(id)
           /\ ManualFix(id, c[1], c[2])) =>
              /\ properties'[id].latitude = c[1]
              /\ properties'[id].longitude = c[2]
              /\ properties'[id].geocoded
              /\ properties'[id].geocoding_source = "manual"
              /\ \A i \in 1..Len(failed_geocoding') :
                    failed_geocoding'[i].property_id = id =>
                        failed_geocoding'[i].resolved
              /\ \A i \in 1..Len(failed_geocoding') :
                    ~failed_geocoding'[i].resolved =>
                        failed_geocoding'[i].property_id # id]_vars

C8_Witness ==
    \E t \in Targets :
        /\ properties[t].geocoding_source = "manual" /\ Resolved(t)
        /\ Cardinality(EntriesOf(t)) >= 2
        /\ \A i \in EntriesOf(t) : failed_geocoding[i].resolved

(* C9: when the cache holds a successful entry for the normalized key of   *)
(* the target's city, processing the target issues no provider query,      *)
(* writes the cached coordinates, marks the target resolved and tags it    *)
(* with source cache.                                                      *)
C9_CacheHitShortCircuits ==
    [][\A w \in Workers :
          (/\ run[w].pc = "lookup"
           /\ run'[w] # run[w]
           /\ SuccessfulEntry(Head(run[w].queue).city)) =>
              /\ run'[w].pc = "delay"
              /\ run'[w].nq = 0
              /\ \E r \in geocoding_cache :
                    /\ r.city_key = CityKey[Head(run[w].queue).city]
                    /\ r.success
                    /\ properties'[CurrentId(w)].latitude = r.latitude
                    /\ properties'[CurrentId(w)].longitude = r.longitude
              /\ properties'[CurrentId(w)].geocoded
              /\ properties'[CurrentId(w)].geocoding_source = "cache"]_vars

C9_Witness ==
    \E w \in Workers :
        /\ run[w].pc = "delay" /\ run[w].nq = 0
        /\ run[w].mode = "forward" /\ run[w].cached >= 1
        /\ properties[CurrentId(w)].geocoding_source = "cache"
        /\ SuccessfulEntry(Head(run[w].queue).city)

(* C10: a provider query that raises a quota signal ends the strategy      *)
(* chain of the item: no further phrasing or variant is queried.  The code *)
(* catches the signal like any other exception and goes on.                *)
C10_QuotaAbortsChain ==
    [][\A w \in Workers :
          Query(w, [kind |-> "quota"]) => run'[w].pc # "query"]_vars

(* C11: a forward run pulls only targets that are unresolved with attempt  *)
(* counter below the maximum at the pull, at most batch_size of them, each *)
(* once, oldest first with no older eligible target left out; it then      *)
(* works through the pulled list from its head, one item at a time.        *)
C11_ForwardPullsEligibleOldestFirst ==
    [][/\ \A w \in Workers, batch_size \in {NULL, 1} :
            StartForward(w, batch_size) =>
                LET q == run'[w].queue
                    limit == IF batch_size = NULL THEN config.batch_size
                             ELSE batch_size
                    Eligible == {t \in Targets :
                                    /\ ~properties[t].geocoded
                                    /\ properties[t].geocoding_attempts
                                           < config.max_attempts}
                IN  /\ Len(q) <= limit
                    /\ \A i \in 1..Len(q) : q[i].id \in Eligible
                    /\ \A i, j \in 1..Len(q) : i < j => q[i].id < q[j].id
                    /\ \A i \in 1..Len(q), t \in Eligible :
                          t < q[i].id => \E j \in 1..Len(q) : q[j].id = t
                    /\ config.enabled =>
                          Len(q) = IF Cardinality(Eligible) < limit
                                   THEN Cardinality(Eligible) ELSE limit
       /\ \A w \in Workers :
            run[w].mode = "forward" /\ run[w].queue # <<>> =>
                /\ run'[w].queue \in {run[w].queue, Tail(run[w].queue)}
                /\ FinishesItem(w) =>
                      \A t \in Targets :
                          properties'[t] # properties[t] => t = CurrentId(w)]_vars

(* a batch of one took the oldest target and left a newer eligible one *)
C11_Witness ==
    \E w \in Workers :
        /\ run[w].mode = "forward" /\ run[w].pc = "delay"
        /\ run[w].total_processed = 1 /\ CurrentId(w) = 1
        /\ ~properties[2].geocoded
        /\ properties[2].geocoding_attempts = 0
        /\ config.max_attempts = 3

(* C12: with geocoding disabled a forward run returns at once an outcome   *)
(* with zero processed, successful, cached and failed counts, queries the  *)
(* provider for nothing and leaves targets, cache and entries unchanged.   *)
C12_DisabledRunIsEmpty ==
    [][/\ \A w \in Workers, batch_size \in {NULL, 1} :
            (~config.enabled /\ StartForward(w, batch_size)) =>
                /\ run'[w].pc = "done"
                /\ run'[w].queue = <<>>
                /\ run'[w].total_processed = 0 /\ run'[w].successful = 0
                /\ run'[w].cached = 0 /\ run'[w].failed = 0
                /\ UNCHANGED <<properties, geocoding_cache, failed_geocoding>>
       /\ \A w \in Workers :
            run[w].pc = "done" /\ run'[w] # run[w] =>
                /\ run'[w] = IdleRun
                /\ UNCHANGED <<properties, geocoding_cache, failed_geocoding>>]_vars

(* a disabled run returned while both targets were waiting *)
C12_Witness ==
    \E w \in Workers :
        /\ ~config.enabled
        /\ run[w].mode = "forward" /\ run[w].pc = "done"
        /\ run[w].total_processed = 0 /\ run[w].errors = 1
        /\ \A t \in Targets :
              ~properties[t].geocoded /\ properties[t].geocoding_attempts = 0

(* C13: an escalated entry is never removed, a resolved entry stays        *)
(* resolved, and an entry's resolved flag goes from false to true only in  *)
(* a manual fix of its target that reports success: no forward run,        *)
(* retry-mode run or configuration update clears an entry.                 *)
C13_OnlyManualFixClearsEntry ==
    [][/\ Len(failed_geocoding') >= Len(failed_geocoding)
       /\ \A i \in 1..Len(failed_geocoding) :
            /\ failed_geocoding'[i].property_id = failed_geocoding[i].property_id
            /\ failed_geocoding[i].resolved => failed_geocoding'[i].resolved
            /\ (~failed_geocoding[i].resolved /\ failed_geocoding'[i].resolved) =>
                  /\ fixes' = fixes + 1
                  /\ last_fix'.returned
                  /\ last_fix'.property_id = failed_geocoding[i].property_id
                  /\ UNCHANGED <<run, config>>]_vars

(* a retry-mode item resolved its target and the entry is still open, and  *)
(* another entry was cleared by a manual fix                               *)
C13_Witness ==
    /\ \E w \in Workers :
          /\ run[w].mode = "retry" /\ run[w].pc = "delay"
          /\ run[w].successful >= 1
          /\ Resolved(CurrentId(w))
          /\ \E i \in EntriesOf(CurrentId(w)) : ~failed_geocoding[i].resolved
    /\ \E i \in 1..Len(failed_geocoding) : failed_geocoding[i].resolved

(* C14: with forward passes one after another and a city that never        *)
(* matches in-region, the attempt counter of a target never passes         *)
(* max_attempts; below it the target has no escalated entry; once it       *)
(* equals max_attempts (after max_attempts passes that included the        *)
(* target) the target is not pulled by a forward run any more and has      *)
(* exactly one escalated entry, whose attempts field equals max_attempts.  *)
C14_EscalatedAfterMaxAttemptsPasses ==
    \A t \in Targets :
        /\ ~properties[t].geocoded
        /\ properties[t].geocoding_attempts <= config.max_attempts
        /\ properties[t].geocoding_attempts < config.max_attempts =>
              EntriesOf(t) = {}
        /\ properties[t].geocoding_attempts = config.max_attempts =>
              /\ LET rows == get_properties_for_geocoding(properties, config,
                                                          config.batch_size)
                 IN  \A i \in 1..Len(rows) : rows[i].id # t
              /\ Cardinality(EntriesOf(t)) = 1
              /\ \A i \in EntriesOf(t) :
                    /\ failed_geocoding[i].attempts = config.max_attempts
                    /\ ~failed_geocoding[i].resolved

(* every target went through max_attempts = 2 passes *)
C14_Witness ==
    /\ config.enabled /\ config.max_attempts = 2
    /\ \A t \in Targets :
          /\ properties[t].geocoding_attempts = config.max_attempts
          /\ Cardinality(EntriesOf(t)) = 1
    /\ \E w \in Workers :
          /\ run[w].mode = "forward" /\ run[w].pc = "done"
          /\ run[w].total_processed = Cardinality(Targets)

(* C15: with an empty cache and a provider that never matches (it times    *)
(* out on every query), a finished forward run over n pulled targets       *)
(* reports total_processed = failed = n with n entries in the error list,  *)
(* no success and no cache hit, and no target is resolved.                 *)
C15_AllTimeoutsAllFailed ==
    /\ \A w \in Workers :
          (run[w].mode = "forward" /\ run[w].pc = "done" /\ config.enabled) =>
              /\ run[w].failed = run[w].total_processed
              /\ run[w].errors = run[w].total_processed
              /\ run[w].successful = 0 /\ run[w].cached = 0
    /\ \A w \in Workers :
          run[w].mode = "forward" /\ run[w].pc \in {"lookup", "query", "delay"} =>
              run[w].failed + Len(run[w].queue)
                  \in {run[w].total_processed, run[w].total_processed + 1}
    /\ \A t \in Targets : ~Resolved(t)

C15_Witness ==
    \E w \in Workers :
        /\ run[w].mode = "forward" /\ run[w].pc = "done"
        /\ run[w].total_processed = Cardinality(Targets)
        /\ run[w].failed = Cardinality(Targets)
        /\ run[w].errors = Cardinality(Targets)
        /\ \A c \in Cities : ~SuccessfulEntry(c)

(* C16: a timeout on one provider query is a non-match for that query      *)
(* only: when the chain has a further phrasing or variant the run moves to *)
(* it with nothing written, otherwise the item ends and the run goes on;   *)
(* an in-region answer to any later query resolves the target with that    *)
(* coordinate; after an item the run takes the next item of the batch.     *)
C16_TimeoutIsNonMatchForOneQuery ==
    [][\A w \in Workers :
          /\ Query(w, [kind |-> "timeout"]) =>
                IF run[w].qi = 2 /\ run[w].vi = Len(run[w].plan)
                THEN run'[w].pc = "delay" /\ run'[w].queue = run[w].queue
                ELSE /\ run'[w].pc = "query"
                     /\ run'[w].queue = run[w].queue
                     /\ run'[w].plan = run[w].plan
                     /\ <<run'[w].vi, run'[w].qi>> =
                            IF run[w].qi = 1 THEN <<run[w].vi, 2>>
                            ELSE <<run[w].vi + 1, 1>>
                     /\ UNCHANGED <<properties, geocoding_cache, failed_geocoding>>
          /\ \A resp \in ProviderResponses :
                (/\ resp.kind = "location"
                 /\ InsideRectangle(resp.latitude, resp.longitude)
                 /\ Query(w, resp)) =>
                    /\ properties'[CurrentId(w)].geocoded
                    /\ properties'[CurrentId(w)].latitude = resp.latitude
                    /\ properties'[CurrentId(w)].longitude = resp.longitude
                    /\ run'[w].pc = "delay"
          /\ (run[w].pc = "delay" /\ run'[w] # run[w]) =>
                /\ run'[w].queue = Tail(run[w].queue)
                /\ run'[w].pc = IF Len(run[w].queue) > 1 THEN "lookup" ELSE "done"]_vars

(* the first item of a batch failed on every query, the run went on and    *)
(* the second item was resolved by the second phrasing after the first     *)
(* one had no match                                                        *)
C16_Witness ==
    \E w \in Workers :
        /\ run[w].mode = "forward" /\ run[w].pc = "delay"
        /\ run[w].failed = 1 /\ run[w].successful = 1
        /\ run[w].nq = 2
        /\ Resolved(CurrentId(w))
        /\ properties[CurrentId(w)].geocoding_source = "nominatim"

(* the provider answer resp is an in-region location *)
InRegionAnswer(resp) ==
    resp.kind = "location" /\ InsideRectangle(resp.latitude, resp.longitude)

(* the cache row of a city's normalized key after the step *)
EntryAfter(city) ==
    {r \in geocoding_cache' : r.city_key = CityKey[city]}

Warszawa == <<"w", "a", "r", "s", "z", "a", "w", "a">>

(* C18: for a pending target with city "Warszewa" and an empty cache the   *)
(* chain queries the original name and then the corrected name "warszawa"; *)
(* when the provider has no match for both phrasings of the original name  *)
(* and answers a phrasing of the corrected name with an in-region          *)
(* coordinate, the item succeeds with source corrected, the target is      *)
(* resolved with that coordinate and the cache holds a successful entry    *)
(* under the key "warszewa".                                               *)
C18_WarszewaResolvedAsCorrected ==
    [][\A w \in Workers :
          (run[w].queue # <<>> /\ Head(run[w].queue).city = Warszewa) =>
              /\ (run[w].pc = "lookup" /\ run'[w].pc = "query") =>
                    /\ Len(run'[w].plan) >= 2
                    /\ run'[w].plan[1].text = Warszewa
                    /\ run'[w].plan[2].text = Warszawa
              /\ \A resp \in ProviderResponses :
                    (/\ run[w].nq \in {2, 3}
                     /\ InRegionAnswer(resp)
                     /\ Query(w, resp)) =>
                        /\ run[w].plan[run[w].vi].text = Warszawa
                        /\ run'[w].successful = run[w].successful + 1
                        /\ properties'[CurrentId(w)].geocoding_source = "corrected"
                        /\ properties'[CurrentId(w)].geocoded
                        /\ properties'[CurrentId(w)].latitude = resp.latitude
                        /\ properties'[CurrentId(w)].longitude = resp.longitude
                        /\ \E r \in geocoding_cache' :
                              /\ r.city_key = <<"w", "a", "r", "s", "z", "e", "w", "a">>
                              /\ r.success /\ r.source = "corrected"
                              /\ r.latitude = resp.latitude
                              /\ r.longitude = resp.longitude]_vars

C18_Witness ==
    \E w \in Workers :
        /\ run[w].pc = "delay" /\ run[w].nq = 3 /\ run[w].successful = 1
        /\ Head(run[w].queue).city = Warszewa
        /\ properties[CurrentId(w)].geocoding_source = "corrected"
        /\ properties[CurrentId(w)].geocoding_attempts = 1
        /\ Resolved(CurrentId(w))
        /\ SuccessfulEntry(Warszewa)

(* the cache holds a failed entry for the city *)
FailedEntry(city) ==
    \E r \in geocoding_cache : r.city_key = CityKey[city] /\ ~r.success

(* C19: a failed cache entry does not block resolution.  A forward run     *)
(* with the configured batch size pulls exactly the targets that are       *)
(* unresolved with attempt counter below the maximum, whatever the cache   *)
(* holds, and the lookup of an item whose city has no successful entry     *)
(* (a failed one or none) starts the strategy chain at the original name   *)
(* with nothing written.                                                   *)
C19_FailedEntryDoesNotBlock ==
    [][\A w \in Workers :
          /\ (config.enabled /\ StartForward(w, NULL)) =>
                {run'[w].queue[i].id : i \in 1..Len(run'[w].queue)} =
                    {t \in Targets :
                        /\ ~properties[t].geocoded
                        /\ properties[t].geocoding_attempts < config.max_attempts}
          /\ (/\ run[w].pc = "lookup"
              /\ run'[w] # run[w]
              /\ ~SuccessfulEntry(Head(run[w].queue).city)) =>
                /\ run'[w].pc = "query"
                /\ run'[w].vi = 1 /\ run'[w].qi = 1
                /\ run'[w].plan[1].text = Head(run[w].queue).city
                /\ UNCHANGED <<properties, geocoding_cache, failed_geocoding>>]_vars

(* a target that failed before is in the chain again while the cache holds *)
(* the failed entry of its city                                            *)
C19_Witness ==
    \E w \in Workers :
        /\ run[w].mode = "forward" /\ run[w].pc = "query"
        /\ runs_started = 2
        /\ \A v \in Workers \ {w} : run[v].pc = "idle"
        /\ properties[CurrentId(w)].geocoding_attempts = 1
        /\ properties[CurrentId(w)].geocoding_source = "failed"
        /\ FailedEntry(Head(run[w].queue).city)

(* C20: the cache holds at most one entry per normalized key, and the      *)
(* lookup of a city returns coordinates exactly when the entry of the      *)
(* city's key is marked successful, and then the coordinates of that entry. *)
C20_OneEntryPerKeyLookupOnSuccess ==
    /\ \A r1, r2 \in geocoding_cache : r1.city_key = r2.city_key => r1 = r2
    /\ \A c \in Cities :
          LET found == get_cached_geocoding(geocoding_cache, c)
          IN  /\ found # <<>> <=> SuccessfulEntry(c)
              /\ found # <<>> =>
                    \E r \in geocoding_cache :
                        /\ r.city_key = CityKey[c] /\ r.success
                        /\ found = <<r.latitude, r.longitude>>

(* the failed entry stored for a city was replaced by a successful one *)
C20_Witness ==
    \E t \in Targets :
        /\ properties[t].geocoding_source = "failed"
        /\ SuccessfulEntry(properties[t].city)
        /\ ~FailedEntry(properties[t].city)

----------------------------------------------------------------------------
(* C21: at most one batch run is in flight at any time: while one run is   *)
(* between its start and its return no second run is processing targets    *)
(* (a second trigger would wait or be rejected as busy).  The scheduler    *)
(* thread and the threads of api_geocoding_trigger / api_geocoding_retry   *)
(* take no lock, so two runs do overlap                                    *)
InFlight(w) == run[w].pc \in {"lookup", "query", "delay", "done"}

C21_AtMostOneRunInFlight ==
    Cardinality({w \in Workers : InFlight(w)}) <= 1

----------------------------------------------------------------------------
(* C22: a shutdown signal is observed between the per-target iterations:   *)
(* once the service has been stopped, a run in flight starts no further    *)
(* target (it stops before the next one instead of completing the batch).  *)
(* process_batch reads neither running nor the stop event, so a run whose  *)
(* service was stopped goes on to its next target                          *)
C22_StoppedRunStartsNoFurtherTarget ==
    [][\A w \in Workers :
          (~running /\ run[w].pc = "delay") => run'[w].pc # "lookup"]_vars

----------------------------------------------------------------------------
(* C23: in a forward run every processed target, whether it was a cache    *)
(* hit or a miss and whether it succeeded or failed, is followed by one    *)
(* inter-item delay step before the next target: the step that counts a    *)
(* target leaves the run at its delay on the same target, and the run      *)
(* moves to the next target only by the delay step                         *)
ItemsCounted(r) == r.successful + r.cached + r.failed

C23_EveryTargetFollowedByDelay ==
    [][\A w \in Workers :
          run[w].mode = "forward" =>
             /\ ItemsCounted(run'[w]) > ItemsCounted(run[w]) =>
                   /\ run'[w].pc = "delay"
                   /\ run'[w].queue = run[w].queue
             /\ run'[w].queue # run[w].queue =>
                   /\ run[w].pc = "delay"
                   /\ run'[w].queue = Tail(run[w].queue)]_vars

(* a forward run has reached its second target after a cache hit or a      *)
(* failure on the first                                                    *)
C23_Witness ==
    \E w \in Workers :
        /\ run[w].mode = "forward" /\ run[w].pc = "lookup"
        /\ run[w].total_processed = 2 /\ Len(run[w].queue) = 1
        /\ run[w].cached + run[w].failed = 1

----------------------------------------------------------------------------
(* C24: every batch run that returns, be it a scheduled forward run, an    *)
(* on-demand forward run or a retry-mode run, appends one audit record     *)
(* summarizing its outcome: the step in which a run returns adds exactly   *)
(* one row to system_health.  retry_failed_geocoding returns its result    *)
(* without calling log_health_event (stated for the runs that processed    *)
(* at least one target)                                                    *)
Returns(w) == run[w].pc = "done" /\ run'[w].pc = "idle"

C24_EveryReturnAppendsOneAuditRecord ==
    [][\A w \in Workers :
          (Returns(w) /\ run[w].total_processed > 0) =>
             BagCardinality(system_health') = BagCardinality(system_health) + 1]_vars

----------------------------------------------------------------------------
(* C25: the cache-key normalization is idempotent: for every city string,  *)
(* normalizing the key again gives the same key.  A capital letter that    *)
(* only appears through the NFKD decomposition (after the lowercasing) is  *)
(* left in the key and is lowercased by the second application             *)
C25_NormalizeIdempotent ==
    probe.applied = 2 => probe.twice = probe.once

----------------------------------------------------------------------------
(* C26: the region predicate, the one applied to provider answers and to   *)
(* manual fixes, accepts a pair of coordinates exactly when the latitude   *)
(* and the longitude are both within the rectangle, bounds included        *)
C26_AcceptsExactlyInsideRectangle ==
    probe.applied = 1 =>
        (probe.once <=> InsideRectangle(probe.input[1], probe.input[2]))

(* a corner of the rectangle has been tried and accepted *)
C26_Witness ==
    /\ probe.fn = "_is_in_poland" /\ probe.applied = 1
    /\ probe.input = <<549, 141>> /\ probe.once = TRUE

----------------------------------------------------------------------------
(* C27: a manual resolution applied to a target while a batch run that     *)
(* already pulled that target is in flight is not undone: when the run     *)
(* then processes its stale snapshot of the target and fails, the target   *)
(* remains resolved with source "manual" and keeps its coordinates.        *)
(* geocode_property writes its failure back with update_property_geocoding *)
(* whatever the row holds by then, so the manual coordinates are erased    *)
C27_ManualFixSurvivesStaleFailure ==
    [][\A w \in Workers :
          (/\ run[w].pc \in {"lookup", "query"}
           /\ properties[CurrentId(w)].geocoded
           /\ properties[CurrentId(w)].geocoding_source = "manual"
           /\ run'[w].failed > run[w].failed)
          => /\ properties'[CurrentId(w)].geocoded
             /\ properties'[CurrentId(w)].geocoding_source = "manual"
             /\ properties'[CurrentId(w)].latitude = properties[CurrentId(w)].latitude
             /\ properties'[CurrentId(w)].longitude = properties[CurrentId(w)].longitude]_vars

----------------------------------------------------------------------------
(* C28: every unresolved escalated entry refers to a target that is        *)
(* currently unresolved: once a target is resolved, by a retry-mode        *)
(* success, a cache hit or a manual fix, none of its entries is still      *)
(* listed as unresolved.  Only manual_geocoding_update marks entries       *)
(* resolved, so after a retry-mode success or a cache hit the entry stays  *)
(* on the list                                                             *)
C28_UnresolvedEntryMeansUnresolvedTarget ==
    \A i \in 1..Len(failed_geocoding) :
        ~failed_geocoding[i].resolved =>
            ~properties[failed_geocoding[i].property_id].geocoded

----------------------------------------------------------------------------
(* C29: after any sequence of forward runs, retry-mode runs, manual        *)
(* resolutions and updates of the configured maximum, every unresolved     *)
(* target whose attempt counter is at or above the current maximum has an  *)
(* unresolved escalated entry: no target is left out of the forward        *)
(* batches while absent from the manual-review list.  The entry is only    *)
(* written by a failing attempt, so a target that already failed is left   *)
(* without one when the maximum is lowered to its counter                  *)
C29_EscalatedTargetHasUnresolvedEntry ==
    \A t \in Targets :
        Escalated(t) => \E i \in EntriesOf(t) : ~failed_geocoding[i].resolved

----------------------------------------------------------------------------
(* C30, as stated: with the configured maximum fixed, no target's attempt  *)
(* counter ever exceeds max_attempts after any sequence of forward runs    *)
(* and retry-mode runs.  A retry-mode run processes escalated targets,     *)
(* whose counter is already at the maximum, and every attempt adds one     *)
C30_CounterNeverExceedsMax ==
    \A t \in Targets : properties[t].geocoding_attempts <= config.max_attempts

(* C30, as the code has it: with the configured maximum fixed and the runs *)
(* one after another, forward runs never take a counter above              *)
(* max_attempts: every step that leaves a changed counter above the        *)
(* maximum is an item of a retry-mode run                                  *)
C30_OnlyRetryExceedsMax ==
    [][\A t \in Targets :
          (/\ properties'[t].geocoding_attempts # properties[t].geocoding_attempts
           /\ properties'[t].geocoding_attempts > config.max_attempts)
          => \E w \in Workers :
                /\ run[w].mode = "retry"
                /\ run[w].pc \in {"lookup", "query"}
                /\ CurrentId(w) = t]_vars

(* a forward run has brought a target to the maximum and a retry-mode run  *)
(* has then taken it above                                                 *)
C30_Witness ==
    \E w \in Workers :
        /\ run[w].mode = "retry" /\ run[w].pc = "delay"
        /\ properties[CurrentId(w)].geocoding_attempts = config.max_attempts + 1
        /\ properties[CurrentId(w)].geocoding_source = "failed"

----------------------------------------------------------------------------
(* C31: the strategy chain queries the variants strictly in the order      *)
(* original, cleaned, corrected, then the fuzzy variants, each with its    *)
(* two phrasings, and stops at the first in-region candidate: the queries  *)
(* issued for an item are exactly the positions of the chain up to the     *)
(* current one, and the query step that writes the item back resolved      *)
(* ends the item, so that no further query is issued for it                *)
StrategyRank(tag) ==
    CASE tag = "nominatim" -> 1 [] tag = "cleaned" -> 2
      [] tag = "corrected" -> 3 [] tag = "fuzzy" -> 4

C31_ChainInOrderStopsAtFirstMatch ==
    [][\A w \in Workers :
          run[w].pc = "query" =>
             LET r == run[w]
             IN  /\ r.plan[1] = [text |-> Head(r.queue).city, tag |-> "nominatim"]
                 /\ \A i, j \in 1..Len(r.plan) :
                       i < j => /\ StrategyRank(r.plan[i].tag) <= StrategyRank(r.plan[j].tag)
                                /\ StrategyRank(r.plan[i].tag) \in {1, 2, 3} =>
                                      StrategyRank(r.plan[i].tag) < StrategyRank(r.plan[j].tag)
                 /\ r.nq = 2 * (r.vi - 1) + (r.qi - 1)
                 /\ run'[w] # r =>
                       \/ /\ run'[w].pc = "query" /\ run'[w].plan = r.plan
                          /\ <<run'[w].vi, run'[w].qi>> =
                                IF r.qi = 1 THEN <<r.vi, 2>> ELSE <<r.vi + 1, 1>>
                          /\ properties' = properties
                       \/ run'[w].pc = "delay" /\ run'[w].nq = r.nq + 1]_vars

(* an item was resolved by the first phrasing of the third variant of its  *)
(* chain, the fifth query, and no sixth was issued                         *)
C31_Witness ==
    \E w \in Workers :
        /\ run[w].pc = "delay" /\ run[w].nq = 5
        /\ properties[CurrentId(w)].geocoded
        /\ properties[CurrentId(w)].geocoding_source \in {"cleaned", "corrected", "fuzzy"}

----------------------------------------------------------------------------
(* C32: within the resolution of one item the provider is queried at most  *)
(* twice (the two phrasings) for any one variant text: a variant already   *)
(* tried by an earlier strategy of the chain is not queried again by a     *)
(* later one.  generate_variants returns the cleaned and the corrected     *)
(* text again and the fuzzy loop only skips the original                   *)
C32_NoVariantTextQueriedAgain ==
    \A w \in Workers :
        run[w].pc = "query" =>
            \A i, j \in 1..run[w].vi :
                i < j => run[w].plan[i].text # run[w].plan[j].text

----------------------------------------------------------------------------
(* C33: an escalated entry is created only by a failed item whose attempt  *)
(* counter, after its increment, has reached the configured maximum: a     *)
(* step adds a row to failed_geocoding exactly when it is the failing end  *)
(* of an item that leaves the counter at or above max_attempts; a failure  *)
(* below the maximum adds none, and neither does a successful item (cache  *)
(* hit or fresh), even when it brings the counter to the maximum           *)
ItemFails(w) == FinishesItem(w) /\ run'[w].failed > run[w].failed

C33_EntryOnlyByFailureAtMaximum ==
    [][/\ Len(failed_geocoding') <= Len(failed_geocoding) + 1
       /\ Len(failed_geocoding') = Len(failed_geocoding) + 1
             <=> \E w \in Workers :
                    /\ ItemFails(w)
                    /\ properties'[CurrentId(w)].geocoding_attempts >= config.max_attempts
       /\ \A i \in 1..Len(failed_geocoding) :
             failed_geocoding'[i].property_id = failed_geocoding[i].property_id]_vars

(* one target was escalated by a failure at the maximum while another was  *)
(* resolved by the attempt that brought its counter to the maximum and has *)
(* no entry                                                                *)
C33_Witness ==
    \E t1, t2 \in Targets :
        /\ ~properties[t1].geocoded /\ EntriesOf(t1) # {}
        /\ properties[t2].geocoded /\ EntriesOf(t2) = {}
        /\ properties[t2].geocoding_attempts = config.max_attempts
        /\ properties[t2].geocoding_source # "manual"

----------------------------------------------------------------------------
(* C34: a retry-mode run processes only targets taken from the escalated   *)
(* entries that were unresolved when it started, at most the given maximum *)
(* count and most recent attempt first, and applies to each the per-item   *)
(* resolution of a forward run: the cache lookup (a hit is written back    *)
(* with source "cache" without a query), then the strategy chain, then the *)
(* write-back of that one target with its attempt counter incremented      *)
C34_RetryPullsUnresolvedEntriesNewestFirst ==
    [][/\ \A w \in Workers, max_retries \in {1, 50} :
            StartRetry(w, max_retries) =>
                LET q == run'[w].queue
                    Unresolved == {i \in 1..Len(failed_geocoding) :
                                      ~failed_geocoding[i].resolved}
                IN  /\ Len(q) = IF Cardinality(Unresolved) < max_retries
                                THEN Cardinality(Unresolved) ELSE max_retries
                    /\ \A k \in 1..Len(q) :
                          \E i \in Unresolved :
                             /\ Cardinality({j \in Unresolved : j > i}) = k - 1
                             /\ q[k].id = failed_geocoding[i].property_id
                             /\ q[k].city = failed_geocoding[i].city
       /\ \A w \in Workers :
            run[w].mode = "retry" /\ run[w].queue # <<>> =>
                /\ run'[w].queue \in {run[w].queue, Tail(run[w].queue)}
                /\ (run[w].pc = "lookup" /\ run'[w] # run[w]) =>
                      IF SuccessfulEntry(Head(run[w].queue).city)
                      THEN /\ run'[w].pc = "delay"
                           /\ properties'[CurrentId(w)].geocoding_source = "cache"
                      ELSE run'[w].pc = "query" /\ properties' = properties
                /\ FinishesItem(w) =>
                      /\ properties'[CurrentId(w)].geocoding_attempts =
                            properties[CurrentId(w)].geocoding_attempts + 1
                      /\ \A t \in Targets :
                            properties'[t] # properties[t] => t = CurrentId(w)]_vars

(* a retry-mode run of at most one entry took the newest of two unresolved *)
(* entries, which belong to different targets                              *)
C34_Witness ==
    \E w \in Workers :
        /\ run[w].mode = "retry" /\ run[w].pc = "lookup"
        /\ run[w].total_processed = 1
        /\ Len(failed_geocoding) = 2
        /\ \A i \in 1..2 : ~failed_geocoding[i].resolved
        /\ failed_geocoding[1].property_id # failed_geocoding[2].property_id
        /\ CurrentId(w) = failed_geocoding[2].property_id

----------------------------------------------------------------------------
(* C35: manual_geocoding_fix reports success exactly when the target's     *)
(* coordinates were written: for an existing target and an in-region       *)
(* coordinate it returns true whether or not the target has an escalated   *)
(* entry, and for a target id that does not exist it returns false.        *)
(* manual_geocoding_update returns the row count of its last statement,    *)
(* the UPDATE of failed_geocoding, so a fix of a target without an entry   *)
(* is applied and reported as failed                                       *)
C35_FixReturnsTrueIffWritten ==
    last_fix.property_id # 0 =>
        (last_fix.returned <=>
            /\ last_fix.property_id \in Targets
            /\ InsideRectangle(last_fix.latitude, last_fix.longitude))

----------------------------------------------------------------------------
(* C36: a successful cache entry is never replaced by a failed one: once   *)
(* the lookup of a city returns coordinates it keeps returning coordinates *)
(* after any interleaving of forward and retry-mode runs, overlapping runs *)
(* on targets with the same key included.  A run that missed the cache     *)
(* before the other run's success saves its own failure afterwards, and    *)
(* INSERT OR REPLACE puts the failed row in the place of the successful    *)
C36_SuccessfulEntryStays ==
    [][\A c \in Cities :
          get_cached_geocoding(geocoding_cache, c) # <<>> =>
             get_cached_geocoding(geocoding_cache', c) # <<>>]_vars

----------------------------------------------------------------------------
(* C37: under repeated forward batch runs with geocoding enabled,          *)
(* batch_size >= 1, max_attempts >= 1 and no new targets, every pending    *)
(* target eventually leaves the pending set, resolved or escalated after   *)
(* max_attempts failures, and from then on a run finds no eligible target; *)
(* the oldest-first selection does not starve the newer target             *)
Pending(t) ==
    ~properties[t].geocoded /\ properties[t].geocoding_attempts < config.max_attempts

C37_PendingEventuallyDrained ==
    <>[](\A t \in Targets : ~Pending(t))

(* with a batch of one, the older target failed up to the maximum and was  *)
(* escalated, then the newer target had its turn, and nothing is pending   *)
C37_Witness ==
    /\ NoRunInFlight /\ config.batch_size = 1
    /\ \A t \in Targets : ~Pending(t)
    /\ Escalated(1) /\ EntriesOf(1) # {}
    /\ properties[2].geocoding_attempts > 0

----------------------------------------------------------------------------
(* C38: after any sequence of start_service and stop_service calls on one  *)
(* service instance at most one scheduler loop is active: a start that     *)
(* follows a stop whose join timed out during a long scheduled batch does  *)
(* not leave the old loop running next to the new one.  The old thread     *)
(* comes back from its job to a cleared stop event and a set flag, and     *)
(* goes on looping                                                         *)
C38_AtMostOneSchedulerLoop ==
    scheduler_threads <= 1

----------------------------------------------------------------------------
(* C39, as stated: for every outcome returned by a forward run or a        *)
(* retry-mode run, total_processed = successful + cached + failed, and the *)
(* error list has at most one entry per failed item.  The outcome of a     *)
(* forward run refused because geocoding is disabled has no failed item    *)
(* and the entry "Geocoding is disabled" in its error list                 *)
C39_TotalIsSumAndErrorsWithinFailed ==
    \A w \in Workers :
        run[w].pc = "done" =>
            /\ run[w].total_processed =
                  run[w].successful + run[w].cached + run[w].failed
            /\ run[w].errors <= run[w].failed

(* C39, as the code has it: every returned outcome has total_processed =   *)
(* successful + cached + failed; its error list has at most one entry per  *)
(* failed item, except that of a forward run refused because geocoding is  *)
(* disabled, which holds one entry while all counters are zero             *)
C39_TotalIsSumErrorsWithinFailedOrDisabled ==
    \A w \in Workers :
        run[w].pc = "done" =>
            /\ run[w].total_processed =
                  run[w].successful + run[w].cached + run[w].failed
            /\ \/ run[w].errors <= run[w].failed
               \/ /\ run[w].mode = "forward" /\ ~config.enabled
                  /\ run[w].total_processed = 0 /\ run[w].errors = 1

(* a forward run returns after one fresh success and one cache hit *)
C39_Witness ==
    \E w \in Workers :
        /\ run[w].pc = "done" /\ run[w].mode = "forward"
        /\ run[w].total_processed = 2
        /\ run[w].successful = 1 /\ run[w].cached = 1

----------------------------------------------------------------------------
(* C40: after an item whose strategy chain is exhausted without an         *)
(* in-region match, the cache holds an entry for the city's normalized key *)
(* with success false and source "failed", the lookup of that city returns *)
(* nothing, and the target is written back unresolved with null            *)
(* coordinates                                                             *)
ChainExhausted(w) ==
    /\ run[w].pc = "query" /\ ItemFails(w)
    /\ Head(run[w].queue).city # NoneCity

C40_ExhaustedChainCachedAsFailed ==
    [][\A w \in Workers :
          ChainExhausted(w) =>
             LET prop == Head(run[w].queue)
             IN  /\ \E r \in geocoding_cache' :
                       /\ r.city_key = _normalize_city(prop.city)
                       /\ ~r.success /\ r.source = "failed"
                       /\ r.latitude = NULL /\ r.longitude = NULL
                 /\ get_cached_geocoding(geocoding_cache', prop.city) = <<>>
                 /\ ~properties'[prop.id].geocoded
                 /\ properties'[prop.id].latitude = NULL
                 /\ properties'[prop.id].longitude = NULL
                 /\ properties'[prop.id].geocoding_source = "failed"
                 /\ run'[w].nq = 2 * Len(run[w].plan)]_vars

(* a chain of three variants was exhausted with six queries and the city   *)
(* has its failed cache row                                                *)
C40_Witness ==
    \E w \in Workers :
        /\ run[w].pc = "delay" /\ run[w].nq >= 6 /\ run[w].failed > 0
        /\ ~properties[CurrentId(w)].geocoded
        /\ properties[CurrentId(w)].geocoding_source = "failed"
        /\ \E r \in geocoding_cache :
              r.city_key = CityKey[properties[CurrentId(w)].city] /\ ~r.success

====
